---- MODULE Spec2Model ----
(***************************************************************************)
(* A model of the azalea interpreter pipeline (src/src/azalea.cpp):        *)
(* Lexer::tokenize -> Parser::parse -> Runtime::evaluate, as driven by     *)
(* Runtime::execute.  Source text is a sequence of one-character strings;  *)
(* every std::string is the sequence of its characters.  Numbers (C++      *)
(* double) are exact rationals [num, den] with den > 0.                    *)
(***************************************************************************)
EXTENDS Integers, Sequences, FiniteSets, TLC

VARIABLES
    source,     \* Lexer::source, the text handed to Runtime::execute
    pos,        \* Lexer::pos (0-based index into source)
    line,       \* Lexer::line
    col,        \* Lexer::col
    tokens,     \* the token vector built by Lexer::tokenize / held by Parser
    ast,        \* the Program node returned by Parser::parse
    variables,  \* Runtime::variables (global table)
    functions,  \* Runtime::functions
    scopes,     \* Runtime::scopes
    output,     \* the lines handed to Runtime::print, in order
    result,     \* the ValuePtr returned by Runtime::evaluate(ast)
    ppos,       \* Parser::pos
    trace,      \* the log of the calls of Runtime::evaluate that have returned
    executed,   \* the texts of the earlier execute calls on this Runtime
    phase,      \* position inside Runtime::execute
    runs        \* number of execute calls started on this Runtime

vars == <<source, pos, line, col, tokens, ppos, ast, variables, functions, scopes,
          output, trace, result, executed, phase, runs>>

(***************************************************************************)
(* Bounds of the model.                                                    *)
(***************************************************************************)
MaxSrcLen == 4
MaxToks == 3
MaxRuns == 2
MaxDepth == 3

(***************************************************************************)
(* Characters.                                                             *)
(***************************************************************************)
Digits == {"0", "1", "2", "3", "4", "5", "6", "7", "8", "9"}

LowerCase == {"a", "b", "c", "d", "e", "f", "g", "h", "i", "j", "k", "l", "m",
              "n", "o", "p", "q", "r", "s", "t", "u", "v", "w", "x", "y", "z"}

UpperCase == {"A", "B", "C", "D", "E", "F", "G", "H", "I", "J", "K", "L", "M",
              "N", "O", "P", "Q", "R", "S", "T", "U", "V", "W", "X", "Y", "Z"}

isdigit(c) == c \in Digits

isalpha(c) == c \in LowerCase \cup UpperCase

isalnum(c) == isalpha(c) \/ isdigit(c)

isspace(c) == c \in {" ", "\n", "\t", "\r", "\f"}

\* A std::string is the sequence of its characters; Str gives the string the
\* characters spell, for comparison with the string literals of the code.
RECURSIVE Str(_)
Str(cs) == IF cs = <<>> THEN "" ELSE Head(cs) \o Str(Tail(cs))

\* source.substr(start, n) with a 0-based start
substr(src, start, n) == [i \in 1..n |-> src[start + i]]

\* source[p] with the 0-based index of the code
At(src, p) == src[p + 1]

(***************************************************************************)
(* Lexer.                                                                  *)
(***************************************************************************)
keywords ==
    {"form", "act", "call", "give", "say", "do", "end", "if", "loop",
     "over", "under", "same", "not", "and", "or", "from", "to", "with",
     "as", "num", "text", "list", "map", "bool", "void", "put", "make",
     "on", "serve", "view", "read", "write", "net", "file", "vm", "play",
     "else", "plus", "minus", "times", "div", "show", "render", "style",
     "button", "btn", "input", "field", "image", "img", "label", "pane",
     "box", "ul", "start", "route", "post", "delete", "del",
     "static", "files", "json", "send", "css", "link", "head", "body",
     "title", "h1", "h2", "h3", "p", "span", "a", "select",
     "option", "table", "tr", "td", "th", "header", "footer", "nav",
     "section", "article", "aside", "main", "grid", "row", "col", "card",
     "let", "var", "const", "set", "create", "new", "def", "fn", "func",
     "return", "print", "output", "display", "when", "then", "while", "for",
     "each", "repeat", "until", "break", "continue", "switch", "case",
     "equals", "is", "are", "has", "have", "contains", "include",
     "add", "subtract", "multiply", "divide", "mod", "power", "sqrt",
     "greater", "less", "equal", "notequal", "andalso", "orelse",
     "color", "background", "bg", "width", "height", "margin", "padding",
     "border", "radius", "shadow", "font", "size", "weight", "family",
     "align", "center", "left", "right", "justify", "flex",
     "position", "absolute", "relative", "fixed", "sticky",
     "top", "bottom", "zindex", "opacity", "transform",
     "transition", "animation", "hover", "active", "focus", "visited"}

symbols == {".", ",", "/", "?", "!", ";"}

Token(t, v, l, c) == [type |-> t, value |-> v, line |-> l, col |-> c]

LexState(p, l, c) == [pos |-> p, line |-> l, col |-> c]

\* skipWhitespace whose newline branch resets col without line++
RECURSIVE skipWhitespaceNoLine(_, _)
skipWhitespaceNoLine(src, st) ==
    IF st.pos < Len(src) /\ isspace(At(src, st.pos))
    THEN skipWhitespaceNoLine(src,
            IF At(src, st.pos) = "\n"
            THEN LexState(st.pos + 1, st.line, 1)
            ELSE LexState(st.pos + 1, st.line, st.col + 1))
    ELSE st

RECURSIVE skipWhitespace(_, _)
skipWhitespace(src, st) ==
    IF st.pos < Len(src) /\ isspace(At(src, st.pos))
    THEN skipWhitespace(src,
            IF At(src, st.pos) = "\n"
            THEN LexState(st.pos + 1, st.line + 1, 1)
            ELSE LexState(st.pos + 1, st.line, st.col + 1))
    ELSE st

RECURSIVE skipLineComment(_, _)
skipLineComment(src, st) ==
    IF st.pos < Len(src) /\ At(src, st.pos) # "\n"
    THEN skipLineComment(src, LexState(st.pos + 1, st.line, st.col + 1))
    ELSE st

RECURSIVE skipBlockComment(_, _)
skipBlockComment(src, st) ==
    IF st.pos < Len(src) - 1
    THEN IF At(src, st.pos) = "*" /\ At(src, st.pos + 1) = "/"
         THEN LexState(st.pos + 2, st.line, st.col + 2)
         ELSE skipBlockComment(src,
                 IF At(src, st.pos) = "\n"
                 THEN LexState(st.pos + 1, st.line + 1, 1)
                 ELSE LexState(st.pos + 1, st.line, st.col + 1))
    ELSE st

\* Called by tokenize only with pos + 1 < length, so length - 1 does not wrap.
skipComment(src, st) ==
    IF st.pos < Len(src) - 1 /\ At(src, st.pos) = "/" /\ At(src, st.pos + 1) = "/"
    THEN skipLineComment(src, st)
    ELSE IF st.pos < Len(src) - 1 /\ At(src, st.pos) = "/" /\ At(src, st.pos + 1) = "*"
    THEN skipBlockComment(src, LexState(st.pos + 2, st.line, st.col + 2))
    ELSE st

RECURSIVE numberEnd(_, _, _)
numberEnd(src, st, hasDot) ==
    IF st.pos < Len(src) /\ (isdigit(At(src, st.pos)) \/ At(src, st.pos) = ".")
    THEN IF At(src, st.pos) = "." /\ hasDot
         THEN st
         ELSE numberEnd(src, LexState(st.pos + 1, st.line, st.col + 1),
                        hasDot \/ At(src, st.pos) = ".")
    ELSE st

readNumber(src, st) ==
    LET e == numberEnd(src, st, FALSE)
    IN [tok |-> Token("NUMBER", substr(src, st.pos, e.pos - st.pos), e.line, e.col),
        st |-> e]

RECURSIVE stringEnd(_, _)
stringEnd(src, st) ==
    IF st.pos < Len(src) /\ At(src, st.pos) # "\""
    THEN IF At(src, st.pos) = "\\" /\ st.pos + 1 < Len(src)
         THEN stringEnd(src, LexState(st.pos + 2, st.line, st.col + 2))
         ELSE stringEnd(src, LexState(st.pos + 1, st.line, st.col + 1))
    ELSE st

\* substr(start, pos - start) clamps at the end of the text; pos never passes it
\* inside the loop, and the closing pos++ runs whether or not a quote was found.
readString(src, st) ==
    LET e == stringEnd(src, LexState(st.pos + 1, st.line, st.col + 1))
    IN [tok |-> Token("STRING", substr(src, st.pos + 1, e.pos - (st.pos + 1)),
                      e.line, e.col + 1),
        st |-> LexState(e.pos + 1, e.line, e.col + 1)]

RECURSIVE identifierEnd(_, _)
identifierEnd(src, st) ==
    IF st.pos < Len(src) /\ (isalnum(At(src, st.pos)) \/ At(src, st.pos) = "_")
    THEN identifierEnd(src, LexState(st.pos + 1, st.line, st.col + 1))
    ELSE st

\* tokenize calls readIdentifier only on a letter or underscore, so
\* startsWithNumber is false and the number-splitting branch is not taken.
readIdentifier(src, st) ==
    LET e == identifierEnd(src, st)
        value == substr(src, st.pos, e.pos - st.pos)
    IN [tok |-> Token(IF Str(value) \in keywords THEN "KEYWORD" ELSE "IDENTIFIER",
                      value, e.line, e.col),
        st |-> e]

\* readSymbol without its pos++
readSymbolStuck(src, st) ==
    [tok |-> Token("SYMBOL", <<At(src, st.pos)>>, st.line, st.col + 1),
     st |-> st]

readSymbol(src, st) ==
    [tok |-> Token("SYMBOL", <<At(src, st.pos)>>, st.line, st.col + 1),
     st |-> LexState(st.pos + 1, st.line, st.col + 1)]

\* One iteration of the while loop of Lexer::tokenize, from the state st.  The
\* `break` after skipWhitespace leaves pos >= length, which ends the loop.
tokenizeStep(src, st, toks) ==
    LET w == skipWhitespace(src, st)
    IN IF w.pos >= Len(src)
       THEN [st |-> w, toks |-> toks]
       ELSE LET c == At(src, w.pos)
            IN IF c = "/" /\ w.pos + 1 < Len(src)
                    /\ At(src, w.pos + 1) \in {"/", "*"}
               THEN [st |-> skipComment(src, w), toks |-> toks]
               ELSE IF isdigit(c)
               THEN LET r == readNumber(src, w)
                    IN [st |-> r.st, toks |-> Append(toks, r.tok)]
               ELSE IF c = "\""
               THEN LET r == readString(src, w)
                    IN [st |-> r.st, toks |-> Append(toks, r.tok)]
               ELSE IF isalpha(c) \/ c = "_"
               THEN LET r == readIdentifier(src, w)
                    IN [st |-> r.st, toks |-> Append(toks, r.tok)]
               ELSE IF c \in symbols
               THEN LET r == readSymbol(src, w)
                    IN [st |-> r.st, toks |-> Append(toks, r.tok)]
               ELSE [st |-> LexState(w.pos + 1, w.line, w.col + 1), toks |-> toks]

(***************************************************************************)
(* AST nodes.  The constructor ASTNode(t, tok) stores the token and leaves *)
(* the string payload `value` empty; only parseBinaryOp (value = op) and   *)
(* parseSay (value = name) assign it afterwards.                           *)
(***************************************************************************)
EofToken == Token("EOF_TOKEN", <<>>, 0, 0)

ASTNode(t, tok) == [type |-> t, value |-> <<>>, children |-> <<>>, token |-> tok]

\* a null std::shared_ptr<ASTNode>
NullNode == [type |-> "NULL", value |-> <<>>, children |-> <<>>, token |-> EofToken]

AddChild(node, child) == [node EXCEPT !.children = Append(@, child)]

(***************************************************************************)
(* Parser.  Every parse function is an operator of (tokens, pos) giving    *)
(* the node built, the position reached and `hang`: the function entered a *)
(* loop iteration that changes neither pos nor the tree, which the code    *)
(* then repeats without end.                                               *)
(***************************************************************************)
PR(node, p, hang) == [node |-> node, pos |-> p, hang |-> hang]

current(toks, p) == IF p >= Len(toks) THEN EofToken ELSE toks[p + 1]

\* the position after Parser::advance
advance(toks, p) == IF p < Len(toks) THEN p + 1 ELSE p

\* the test of Parser::match; the caller advances when it holds
match(toks, p, value) ==
    current(toks, p).type = "KEYWORD" /\ Str(current(toks, p).value) = value

\* match(w1) || match(w2) || ... over the words of ws
matchAny(toks, p, ws) ==
    current(toks, p).type = "KEYWORD" /\ Str(current(toks, p).value) \in ws

check(toks, p, type) == current(toks, p).type = type

isSymbol(toks, p, s) ==
    current(toks, p).type = "SYMBOL" /\ Str(current(toks, p).value) = s

FormWords == {"form", "let", "var", "const", "set", "create", "make",
              "declare", "define", "init", "new"}

ActWords == {"act", "def", "fn", "func", "function", "method", "procedure"}

IfWords == {"if", "when", "whenever", "provided", "assuming", "given"}

LoopWords == {"loop", "while", "for", "repeat", "each", "foreach", "iterate"}

\* the words parse() and parseBlock() send to parseGive
GiveDispatchWords == {"give", "return", "yield", "send"}

\* the words parseGive itself accepts
GiveWords == {"give", "return"}

SayWords == {"say", "print", "output", "display", "log", "echo", "show", "write"}

PutWords == {"put", "assign", "update"}

TypeWords == {"num", "text", "bool", "list", "map", "void"}

\* the table with every operator on one level
opPrecedenceFlat ==
    [op \in {"or", "and", "same", "not", "over", "under", "plus", "minus",
             "times", "div"} |-> 1]

opPrecedence ==
    [op \in {"or", "and", "same", "not", "over", "under", "plus", "minus",
             "times", "div"} |->
        CASE op = "or" -> 1
          [] op = "and" -> 2
          [] op \in {"same", "not"} -> 3
          [] op \in {"over", "under"} -> 4
          [] op \in {"plus", "minus"} -> 5
          [] op \in {"times", "div"} -> 6]

parsePrimary(toks, p) ==
    LET cur == current(toks, p)
        t == IF cur.type \in {"NUMBER", "STRING"} THEN "LITERAL"
             ELSE IF cur.type = "IDENTIFIER" THEN "IDENTIFIER"
             ELSE IF cur.type = "KEYWORD" /\ Str(cur.value) \in {"true", "false"}
                  THEN "LITERAL"
             ELSE "IDENTIFIER"
    IN PR(ASTNode(t, cur), advance(toks, p), FALSE)

RECURSIVE parseBinaryOp(_, _, _)
RECURSIVE binaryOpLoop(_, _, _, _)
binaryOpLoop(toks, p, left, precedence) ==
    LET cur == current(toks, p)
        op == Str(cur.value)
    IN IF p < Len(toks) /\ cur.type = "KEYWORD" /\ op \in DOMAIN opPrecedence
          /\ opPrecedence[op] >= precedence
       THEN LET right == parseBinaryOp(toks, advance(toks, p), opPrecedence[op] + 1)
                node == [type |-> "BINARY_OP", value |-> cur.value,
                         children |-> <<left, right.node>>,
                         token |-> Token("KEYWORD", cur.value, 0, 0)]
            IN binaryOpLoop(toks, right.pos, node, precedence)
       ELSE PR(left, p, FALSE)

parseBinaryOp(toks, p, precedence) ==
    LET left == parsePrimary(toks, p)
    IN binaryOpLoop(toks, left.pos, left.node, precedence)

parseExpression(toks, p) == parseBinaryOp(toks, p, 0)

(***************************************************************************)
(* Numbers and their conversions.                                          *)
(***************************************************************************)
Abs(n) == IF n < 0 THEN -n ELSE n

RECURSIVE GCD(_, _)
GCD(a, b) == IF b = 0 THEN a ELSE GCD(b, a % b)

\* the double that is not a number; it compares false with every double
NaN == [num |-> 0, den |-> 0]

isNaN(r) == r.den = 0

\* r == 0.0
isZero(r) == r.num = 0 /\ r.den # 0

\* the rational n/d (d > 0) in lowest terms; NaN for d = 0, which is what the
\* arithmetic below gives as soon as an operand is NaN
Rat(n, d) ==
    IF d = 0 THEN NaN
    ELSE [num |-> n \div GCD(Abs(n), d), den |-> d \div GCD(Abs(n), d)]

RECURSIVE Pow10(_)
Pow10(n) == IF n = 0 THEN 1 ELSE 10 * Pow10(n - 1)

DigitValue == [c \in Digits |->
    CASE c = "0" -> 0 [] c = "1" -> 1 [] c = "2" -> 2 [] c = "3" -> 3
      [] c = "4" -> 4 [] c = "5" -> 5 [] c = "6" -> 6 [] c = "7" -> 7
      [] c = "8" -> 8 [] c = "9" -> 9]

DigitChar == <<"0", "1", "2", "3", "4", "5", "6", "7", "8", "9">>

\* the digits of cs from index i (1-based): where they end, their value
\* appended to acc, and how many there are
RECURSIVE scanDigits(_, _, _, _)
scanDigits(cs, i, acc, cnt) ==
    IF i <= Len(cs) /\ cs[i] \in Digits
    THEN scanDigits(cs, i + 1, 10 * acc + DigitValue[cs[i]], cnt + 1)
    ELSE [i |-> i, acc |-> acc, cnt |-> cnt]

RECURSIVE skipSpaces(_, _)
skipSpaces(cs, i) ==
    IF i <= Len(cs) /\ isspace(cs[i]) THEN skipSpaces(cs, i + 1) ELSE i

\* the conversion of stod from the sign, the count of integer digits and the
\* scan fp of all digits: ok = FALSE is std::invalid_argument (no conversion)
stodResult(neg, icnt, fp) ==
    IF icnt + fp.cnt > 0
    THEN [ok |-> TRUE,
          num |-> Rat(IF neg THEN -fp.acc ELSE fp.acc, Pow10(fp.cnt)).num,
          den |-> Rat(fp.acc, Pow10(fp.cnt)).den]
    ELSE [ok |-> FALSE, num |-> 0, den |-> 1]

\* stod after the integer digits ip: an optional decimal point and fraction
stodFraction(cs, neg, ip) ==
    IF ip.i <= Len(cs) /\ cs[ip.i] = "."
    THEN stodResult(neg, ip.cnt, scanDigits(cs, ip.i + 1, ip.acc, 0))
    ELSE stodResult(neg, ip.cnt, [i |-> ip.i, acc |-> ip.acc, cnt |-> 0])

\* the characters of cs from i spell nan, in either case
nanAt(cs, i) ==
    /\ i + 2 <= Len(cs)
    /\ cs[i] \in {"n", "N"} /\ cs[i + 1] \in {"a", "A"} /\ cs[i + 2] \in {"n", "N"}

\* stod from the first character i0 that is no white space: an optional sign,
\* then nan or digits
stodSigned(cs, i0) ==
    IF nanAt(cs, IF i0 <= Len(cs) /\ cs[i0] \in {"-", "+"} THEN i0 + 1 ELSE i0)
    THEN [ok |-> TRUE, num |-> 0, den |-> 0]
    ELSE stodFraction(cs, i0 <= Len(cs) /\ cs[i0] = "-",
                      scanDigits(cs, IF i0 <= Len(cs) /\ cs[i0] \in {"-", "+"}
                                     THEN i0 + 1 ELSE i0, 0, 0))

\* std::stod: leading white space, an optional sign, then "nan" or digits
\* with an optional decimal point.  The texts of the model hold no exponent,
\* hexadecimal or "inf" form.
stod(cs) == stodSigned(cs, skipSpaces(cs, 1))

\* try { return d; } catch (...) { return other; } for a conversion d
orElse(d, other) == IF d.ok THEN [num |-> d.num, den |-> d.den] ELSE other

\* static_cast<int>(double): truncation toward zero
truncToInt(r) ==
    IF r.num >= 0 THEN r.num \div r.den ELSE -((-r.num) \div r.den)

RECURSIVE natToChars(_)
natToChars(n) ==
    IF n < 10 THEN <<DigitChar[n + 1]>>
    ELSE Append(natToChars(n \div 10), DigitChar[(n % 10) + 1])

\* std::to_string(int)
intToString(n) == IF n < 0 THEN <<"-">> \o natToChars(-n) ELSE natToChars(n)

\* n as exactly k digits, zero-padded on the left (n < 10^k)
RECURSIVE padDigits(_, _)
padDigits(n, k) ==
    IF k = 0 THEN <<>> ELSE Append(padDigits(n \div 10, k - 1), DigitChar[(n % 10) + 1])

\* std::to_string(double), i.e. printf("%f"): six decimals, nearest.  The
\* integer part and the remainder are scaled apart to stay within TLC's ints.
doubleToString(r) ==
    LET a == Abs(r.num)
        whole == a \div r.den
        frac == ((2 * (a % r.den) * 1000000) + r.den) \div (2 * r.den)
        ip == IF frac = 1000000 THEN whole + 1 ELSE whole
        fp == IF frac = 1000000 THEN 0 ELSE frac
        body == natToChars(ip) \o <<".">> \o padDigits(fp, 6)
    IN IF isNaN(r) THEN <<"n", "a", "n">>
       ELSE IF r.num < 0 THEN <<"-">> \o body ELSE body

(***************************************************************************)
(* Values.  A ValuePtr is a record; NullValue is the null pointer.         *)
(***************************************************************************)
NoFn == [params |-> <<>>, bodyIdx |-> 0, node |-> NullNode]

MkValue(t, num, den, s, b, fn) ==
    [t |-> t, num |-> num, den |-> den, s |-> s, b |-> b, fn |-> fn]

NullValue == MkValue("NULL", 0, 1, <<>>, FALSE, NoFn)

Void == MkValue("VOID", 0, 1, <<>>, FALSE, NoFn)

Number(r) == MkValue("NUM", r.num, r.den, <<>>, FALSE, NoFn)

Text(s) == MkValue("TEXT", 0, 1, s, FALSE, NoFn)

Bool(b) == MkValue("BOOL", 0, 1, <<>>, b, NoFn)

Func(fn) == MkValue("FUNC", 0, 1, <<>>, FALSE, fn)

RECURSIVE parseBlock(_, _)
RECURSIVE blockLoop(_, _, _)
RECURSIVE blockPush(_, _, _, _)

\* The statement parsers below are written as the paragraphs of the code, each
\* an operator on ps = the node under construction and the position reached.

\* the statement's node with its keyword token, the keyword consumed
startNode(toks, p, type) == PR(ASTNode(type, current(toks, p)), advance(toks, p), FALSE)

\* advance()
skipToken(toks, ps) == PR(ps.node, advance(toks, ps.pos), ps.hang)

\* node->children.push_back(ASTNode(IDENTIFIER, current())); advance()
pushCurrent(toks, ps) ==
    PR(AddChild(ps.node, ASTNode("IDENTIFIER", current(toks, ps.pos))),
       advance(toks, ps.pos), ps.hang)

\* node->children.push_back(r) for the result r of a parse function
pushParsed(node, r) == PR(AddChild(node, r.node), r.pos, r.hang)

\* node->children.push_back(parseExpression())
pushExpression(toks, ps) == pushParsed(ps.node, parseExpression(toks, ps.pos))

\* the optional type of parseForm
formType(toks, ps) ==
    IF (check(toks, ps.pos, "IDENTIFIER") \/ check(toks, ps.pos, "KEYWORD"))
       /\ Str(current(toks, ps.pos).value) \in TypeWords
    THEN pushCurrent(toks, ps)
    ELSE ps

\* the variable name of parseForm
formName(toks, ps) ==
    IF check(toks, ps.pos, "IDENTIFIER") THEN pushCurrent(toks, ps) ELSE ps

\* after the word that introduces the value: an "=" is consumed as well
formAssigned(toks, ps) ==
    IF isSymbol(toks, ps.pos, "=") THEN pushExpression(toks, skipToken(toks, ps))
    ELSE pushExpression(toks, ps)

\* the value of parseForm
formValue(toks, ps) ==
    IF matchAny(toks, ps.pos, {"from", "is", "equals", "to", "as", "becomes"})
    THEN formAssigned(toks, skipToken(toks, ps))
    ELSE IF isSymbol(toks, ps.pos, "=")
    THEN pushExpression(toks, skipToken(toks, ps))
    ELSE IF ~check(toks, ps.pos, "EOF_TOKEN")
            /\ Str(current(toks, ps.pos).value) \notin {"end", "do"}
    THEN pushExpression(toks, ps)
    ELSE ps

parseForm(toks, p) ==
    IF Str(current(toks, p).value) \notin FormWords
    THEN PR(NullNode, p, FALSE)
    ELSE formValue(toks, formName(toks, formType(toks, startNode(toks, p, "FORM"))))

\* the parameter loop of parseAct
RECURSIVE actParams(_, _, _, _)
actParams(toks, p, node, inParens) ==
    IF p < Len(toks) /\ current(toks, p).type # "EOF_TOKEN"
    THEN IF matchAny(toks, p, {"do", "then", "when", "begin"})
         THEN PR(node, advance(toks, p), FALSE)
         ELSE IF inParens /\ isSymbol(toks, p, ")")
         THEN PR(node, advance(toks, p), FALSE)
         ELSE IF isSymbol(toks, p, ",") \/ isSymbol(toks, p, ";")
         THEN actParams(toks, advance(toks, p), node, inParens)
         ELSE IF check(toks, p, "IDENTIFIER")
         THEN actParams(toks, advance(toks, p),
                        AddChild(node, ASTNode("IDENTIFIER", current(toks, p))), inParens)
         ELSE PR(node, p, FALSE)
    ELSE PR(node, p, FALSE)

\* the "}" after a block that was opened with "{"
closeBrace(toks, braces, b) ==
    IF braces /\ ~b.hang /\ isSymbol(toks, b.pos, "}")
    THEN PR(b.node, advance(toks, b.pos), FALSE)
    ELSE b

\* The block of parseAct / parseIf / parseLoop: after one of the block-start
\* words, or between "{" and "}", or from whatever follows.
blockFrom(toks, p, starts) ==
    closeBrace(toks, ~matchAny(toks, p, starts) /\ isSymbol(toks, p, "{"),
               parseBlock(toks, IF matchAny(toks, p, starts) \/ isSymbol(toks, p, "{")
                                THEN advance(toks, p)
                                ELSE p))

\* node->children.push_back(parseBlock()) with its block start; nothing more
\* is parsed once a parse function has entered a loop without end
pushBlock(toks, ps, starts) ==
    IF ps.hang THEN ps ELSE pushParsed(ps.node, blockFrom(toks, ps.pos, starts))

\* the function name of parseAct
actName(toks, ps) ==
    IF check(toks, ps.pos, "IDENTIFIER") THEN pushCurrent(toks, ps) ELSE ps

\* the parameters of parseAct, with or without parentheses
actParamList(toks, ps) ==
    IF isSymbol(toks, ps.pos, "(")
    THEN actParams(toks, advance(toks, ps.pos), ps.node, TRUE)
    ELSE actParams(toks, ps.pos, ps.node, FALSE)

parseAct(toks, p) ==
    IF Str(current(toks, p).value) \notin ActWords
    THEN PR(NullNode, p, FALSE)
    ELSE pushBlock(toks, actParamList(toks, actName(toks, startNode(toks, p, "ACT"))),
                   {"do", "then", "when", "begin"})

\* the argument loop of parseCall
RECURSIVE callArgs(_, _, _)
RECURSIVE callArg(_, _, _)
callArg(toks, node, e) == callArgs(toks, e.pos, AddChild(node, e.node))

callArgs(toks, p, node) ==
    IF p < Len(toks) /\ current(toks, p).type # "EOF_TOKEN"
    THEN IF Str(current(toks, p).value) \in {"end", "else"}
         THEN PR(node, p, FALSE)
         ELSE IF /\ current(toks, p).type = "KEYWORD"
                 /\ Str(current(toks, p).value)
                        \in {"put", "with", "to", "on", "give", "then", "when"}
                 /\ ~(/\ p + 1 < Len(toks)
                      /\ toks[p + 2].type \in {"IDENTIFIER", "NUMBER", "STRING"})
         THEN PR(node, p, FALSE)
         ELSE callArg(toks, node, parseExpression(toks, p))
    ELSE PR(node, p, FALSE)

\* the callee name of parseCall
callName(toks, ps) ==
    IF check(toks, ps.pos, "IDENTIFIER") \/ check(toks, ps.pos, "KEYWORD")
    THEN pushCurrent(toks, ps)
    ELSE ps

\* callArgs from the node and position of ps
callArgsFrom(toks, ps) == callArgs(toks, ps.pos, ps.node)

parseCall(toks, p) == callArgsFrom(toks, callName(toks, startNode(toks, p, "CALL")))

\* the optional else branch of parseIf
ifElse(toks, ps) ==
    IF ~ps.hang /\ matchAny(toks, ps.pos, {"else", "otherwise"})
    THEN pushBlock(toks, skipToken(toks, ps), {"do", "then"})
    ELSE ps

parseIf(toks, p) ==
    IF Str(current(toks, p).value) \notin IfWords
    THEN PR(NullNode, p, FALSE)
    ELSE ifElse(toks, pushBlock(toks, pushExpression(toks, startNode(toks, p, "IF")),
                                {"do", "then", "begin"}))

parseLoop(toks, p) ==
    IF Str(current(toks, p).value) \notin LoopWords
    THEN PR(NullNode, p, FALSE)
    ELSE pushBlock(toks, pushExpression(toks, startNode(toks, p, "LOOP")),
                   {"do", "then", "begin"})

parseGive(toks, p) ==
    IF Str(current(toks, p).value) \notin GiveWords
    THEN PR(NullNode, p, FALSE)
    ELSE pushExpression(toks, startNode(toks, p, "GIVE"))

\* name.substr(1, length - 2) when name is wrapped in single quotes
stripQuotes(name) ==
    IF Len(name) >= 2 /\ name[1] = "'" /\ name[Len(name)] = "'"
    THEN SubSeq(name, 2, Len(name) - 1)
    ELSE name

\* the optional `name "..."` that ends parseSay
sayName(toks, p3, n2) ==
    IF match(toks, p3, "name") /\ current(toks, advance(toks, p3)).type = "STRING"
    THEN PR([n2 EXCEPT !.value = stripQuotes(current(toks, advance(toks, p3)).value)],
            advance(toks, advance(toks, p3)), FALSE)
    ELSE IF match(toks, p3, "name") THEN PR(n2, advance(toks, p3), FALSE)
    ELSE PR(n2, p3, FALSE)

\* the repeat count is pushed as a LITERAL child when it exceeds 1
sayCount(toks, p3, n1, rc) ==
    sayName(toks, p3,
            IF rc > 1
            THEN AddChild(n1, ASTNode("LITERAL", Token("NUMBER", intToString(rc), 0, 0)))
            ELSE n1)

\* parseSay after its expression e: an optional trailing repeat count
sayTrail(toks, tok, e, rc0) ==
    IF e.pos < Len(toks) /\ current(toks, e.pos).type = "NUMBER"
    THEN sayCount(toks, advance(toks, e.pos), AddChild(ASTNode("SAY", tok), e.node),
                  truncToInt(stod(current(toks, e.pos).value)))
    ELSE sayCount(toks, e.pos, AddChild(ASTNode("SAY", tok), e.node), rc0)

\* parseSay at its keyword, with the repeat count read so far
sayFrom(toks, p0, rc0) ==
    IF Str(current(toks, p0).value) \notin SayWords
    THEN PR(NullNode, p0, FALSE)
    ELSE sayTrail(toks, current(toks, p0),
                  parseExpression(toks,
                      IF isSymbol(toks, advance(toks, p0), ".")
                      THEN advance(toks, advance(toks, p0))
                      ELSE advance(toks, p0)),
                  rc0)

\* A NUMBER token is digits with at most one dot, so std::stod converts it
\* and the catch blocks of parseSay are not entered.
parseSay(toks, p) ==
    IF current(toks, p).type = "NUMBER" /\ p + 1 < Len(toks)
    THEN sayFrom(toks, advance(toks, p), truncToInt(stod(current(toks, p).value)))
    ELSE sayFrom(toks, p, 1)

\* the target of parsePut, after `to` or directly
putTarget(toks, ps) ==
    IF match(toks, ps.pos, "to") /\ check(toks, advance(toks, ps.pos), "IDENTIFIER")
    THEN pushCurrent(toks, skipToken(toks, ps))
    ELSE IF match(toks, ps.pos, "to") THEN skipToken(toks, ps)
    ELSE IF check(toks, ps.pos, "IDENTIFIER") THEN pushCurrent(toks, ps)
    ELSE ps

parsePut(toks, p) == putTarget(toks, pushExpression(toks, startNode(toks, p, "PUT")))

\* The statement dispatch inside the while loop of parseBlock, at a KEYWORD.
\* A null node is not pushed; the final else only advances.
blockStatement(toks, p) ==
    LET kw == Str(current(toks, p).value)
    IN IF kw \in FormWords THEN parseForm(toks, p)
       ELSE IF kw \in ActWords THEN parseAct(toks, p)
       ELSE IF kw = "call" THEN parseCall(toks, p)
       ELSE IF kw \in IfWords THEN parseIf(toks, p)
       ELSE IF kw \in LoopWords THEN parseLoop(toks, p)
       ELSE IF kw \in GiveDispatchWords THEN parseGive(toks, p)
       ELSE IF kw \in SayWords THEN parseSay(toks, p)
       ELSE IF kw \in PutWords THEN parsePut(toks, p)
       ELSE PR(NullNode, advance(toks, p), FALSE)

\* the statement r parsed at p is pushed unless null; an iteration that moved
\* neither pos nor the tree repeats without end
blockPush(toks, p, node, r) ==
    IF r.hang THEN PR(IF r.node # NullNode THEN AddChild(node, r.node) ELSE node,
                      r.pos, TRUE)
    ELSE IF r.node # NullNode THEN blockLoop(toks, r.pos, AddChild(node, r.node))
    ELSE IF r.pos = p THEN PR(node, p, TRUE)
    ELSE blockLoop(toks, r.pos, node)

blockLoop(toks, p, node) ==
    IF p < Len(toks) /\ current(toks, p).type # "EOF_TOKEN"
    THEN IF matchAny(toks, p, {"end", "finish", "done"})
         THEN PR(node, advance(toks, p), FALSE)
         ELSE IF isSymbol(toks, p, "}")
         THEN PR(node, p, FALSE)
         ELSE blockPush(toks, p, node,
                        IF current(toks, p).type = "KEYWORD"
                        THEN blockStatement(toks, p)
                        ELSE parseExpression(toks, p))
    ELSE PR(node, p, FALSE)

parseBlock(toks, p) == blockLoop(toks, p, ASTNode("BLOCK", current(toks, p)))

htmlElements ==
    {"h1", "h2", "h3", "h4", "h5", "h6", "p", "div", "span", "button",
     "input", "form", "img", "a", "ul", "ol", "li", "table", "tr", "td",
     "header", "footer", "nav", "main", "section", "article", "aside"}

moduleNames ==
    {"view", "web", "net", "file", "serve", "play", "markdown",
     "query", "database", "csv", "go", "channel", "run"}

\* the keywords that end the argument list of an implicit call
ImplicitStopWords ==
    {"do", "then", "{", "end", "}", "finish", "if", "loop", "form", "act",
     "call", "say", "give", "put"}

\* The argument loop of an implicit element / module call.  No token has the
\* type NEWLINE, so the peek on it never breaks the loop.
RECURSIVE implicitArgs(_, _, _)
implicitArgs(toks, p, node) ==
    IF p < Len(toks) /\ current(toks, p).type # "EOF_TOKEN"
    THEN IF matchAny(toks, p, ImplicitStopWords)
         THEN PR(node, p, FALSE)
         ELSE LET arg == parseExpression(toks, p)
                  n1 == AddChild(node, arg.node)
              IN IF arg.pos >= Len(toks) \/ current(toks, arg.pos).type = "EOF_TOKEN"
                 THEN PR(n1, arg.pos, FALSE)
                 ELSE implicitArgs(toks, arg.pos, n1)
    ELSE PR(node, p, FALSE)

\* `h1 Title`: a Call of the view module with the element as method
htmlElementCall(toks, p) ==
    LET cur == current(toks, p)
        n0 == AddChild(AddChild(ASTNode("CALL", cur),
                  ASTNode("IDENTIFIER",
                          Token("IDENTIFIER", <<"v", "i", "e", "w">>, cur.line, cur.col))),
                  ASTNode("IDENTIFIER", cur))
    IN implicitArgs(toks, advance(toks, p), n0)

\* `net get url`: a Call of the module, without the word call
moduleCall(toks, p) ==
    LET cur == current(toks, p)
        p1 == advance(toks, p)
        n0 == AddChild(ASTNode("CALL", cur), ASTNode("IDENTIFIER", cur))
        hasMethod == check(toks, p1, "IDENTIFIER") \/ check(toks, p1, "KEYWORD")
        n1 == IF hasMethod
              THEN AddChild(n0, ASTNode("IDENTIFIER", current(toks, p1))) ELSE n0
        p2 == IF hasMethod THEN advance(toks, p1) ELSE p1
    IN implicitArgs(toks, p2, n1)

\* The statement dispatch inside the while loop of Parser::parse, at a KEYWORD.
programStatement(toks, p) ==
    LET kw == Str(current(toks, p).value)
    IN IF kw \in FormWords THEN parseForm(toks, p)
       ELSE IF kw \in ActWords THEN parseAct(toks, p)
       ELSE IF kw = "call" THEN parseCall(toks, p)
       ELSE IF kw \in IfWords THEN parseIf(toks, p)
       ELSE IF kw \in LoopWords THEN parseLoop(toks, p)
       ELSE IF kw \in GiveDispatchWords THEN parseGive(toks, p)
       ELSE IF kw \in SayWords THEN parseSay(toks, p)
       ELSE IF kw \in PutWords THEN parsePut(toks, p)
       ELSE IF kw \in htmlElements THEN htmlElementCall(toks, p)
       ELSE IF kw \in moduleNames THEN moduleCall(toks, p)
       ELSE PR(NullNode, advance(toks, p), FALSE)

\* program->children.push_back(r) unless r is null; an iteration that pushed
\* nothing and left pos at p repeats without end
programPush(p, program, r) ==
    IF r.node # NullNode THEN PR(AddChild(program, r.node), r.pos, r.hang)
    ELSE PR(program, r.pos, r.hang \/ r.pos = p)

\* One iteration of the while loop of Parser::parse: the statement at pos is
\* parsed and pushed; a token that is no KEYWORD is skipped.
programStep(toks, p, program) ==
    programPush(p, program,
                IF current(toks, p).type = "KEYWORD"
                THEN programStatement(toks, p)
                ELSE PR(NullNode, advance(toks, p), FALSE))

RECURSIVE programLoop(_, _, _)
programLoop(toks, p, program) ==
    IF p < Len(toks) /\ current(toks, p).type # "EOF_TOKEN"
    THEN LET r == programStep(toks, p, program)
         IN IF r.hang THEN r ELSE programLoop(toks, r.pos, r.node)
    ELSE PR(program, p, FALSE)

\* Parser::parse from pos = 0
parse(toks) == programLoop(toks, 0, ASTNode("PROGRAM", current(toks, 0)))

\* arithmetic of doubles, exact (the model's values stay far from the range
\* and precision limits of a double)
RAdd(a, b) == Rat(a.num * b.den + b.num * a.den, a.den * b.den)

RSub(a, b) == Rat(a.num * b.den - b.num * a.den, a.den * b.den)

RMul(a, b) == Rat(a.num * b.num, a.den * b.den)

\* a / b for b # 0
RDiv(a, b) ==
    IF b.num > 0 THEN Rat(a.num * b.den, a.den * b.num)
    ELSE Rat(-(a.num * b.den), a.den * (-b.num))

RLess(a, b) == a.num * b.den < b.num * a.den

\* a >= b: false, as a < b is, when an operand is NaN
RGeq(a, b) == ~isNaN(a) /\ ~isNaN(b) /\ ~RLess(a, b)

RAbs(a) == [num |-> Abs(a.num), den |-> a.den]

\* std::fmod(a, b) for b # 0: a - b * trunc(a / b)
RFmod(a, b) ==
    IF isNaN(a) \/ isNaN(b) THEN NaN
    ELSE RSub(a, RMul(b, Rat(truncToInt(RDiv(a, b)), 1)))

\* std::pow(a, b) for a natural exponent b
RECURSIVE RPowNat(_, _)
RPowNat(a, n) == IF n <= 0 THEN Rat(1, 1) ELSE RMul(a, RPowNat(a, n - 1))

\* a * b in 32-bit int arithmetic (a >= 0, 0 <= b < 65536), wrapped to the
\* signed range; computed on 16-bit halves to stay within TLC's ints
Int32Mul(a, b) ==
    LET lo == (a % 65536) * b
        hi == (((a \div 65536) * b) + (lo \div 65536)) % 65536
    IN ((IF hi >= 32768 THEN hi - 65536 ELSE hi) * 65536) + (lo % 65536)

numberWords ==
    [w \in {"zero", "one", "two", "three", "four", "five", "six", "seven",
            "eight", "nine", "ten", "eleven", "twelve", "thirteen", "fourteen",
            "fifteen", "sixteen", "seventeen", "eighteen", "nineteen", "twenty",
            "thirty", "forty", "fifty", "sixty", "seventy", "eighty", "ninety",
            "hundred", "thousand", "million", "four_zero_zero_zero", "four_g"} |->
        CASE w = "zero" -> 0 [] w = "one" -> 1 [] w = "two" -> 2 [] w = "three" -> 3
          [] w = "four" -> 4 [] w = "five" -> 5 [] w = "six" -> 6 [] w = "seven" -> 7
          [] w = "eight" -> 8 [] w = "nine" -> 9 [] w = "ten" -> 10
          [] w = "eleven" -> 11 [] w = "twelve" -> 12 [] w = "thirteen" -> 13
          [] w = "fourteen" -> 14 [] w = "fifteen" -> 15 [] w = "sixteen" -> 16
          [] w = "seventeen" -> 17 [] w = "eighteen" -> 18 [] w = "nineteen" -> 19
          [] w = "twenty" -> 20 [] w = "thirty" -> 30 [] w = "forty" -> 40
          [] w = "fifty" -> 50 [] w = "sixty" -> 60 [] w = "seventy" -> 70
          [] w = "eighty" -> 80 [] w = "ninety" -> 90 [] w = "hundred" -> 100
          [] w = "thousand" -> 1000 [] w = "million" -> 1000000
          [] w = "four_zero_zero_zero" -> 4000
          \* 4 * 1024 * 1024 * 1024 is an int expression
          [] w = "four_g" -> Int32Mul(Int32Mul(Int32Mul(4, 1024), 1024), 1024)]

\* wordToNumber without the lookup in numberWords
wordToNumberNoTable(word) == orElse(stod(word), Rat(0, 1))

wordToNumber(word) ==
    IF Str(word) \in DOMAIN numberWords
    THEN Rat(numberWords[Str(word)], 1)
    ELSE orElse(stod(word), Rat(0, 1))

\* Value::toNumber
toNumber(v) ==
    CASE v.t = "NUM" -> [num |-> v.num, den |-> v.den]
      [] v.t = "BOOL" -> IF v.b THEN Rat(1, 1) ELSE Rat(0, 1)
      [] v.t = "TEXT" -> orElse(stod(v.s), wordToNumber(v.s))
      [] OTHER -> Rat(0, 1)

\* Value::toBool
toBool(v) ==
    CASE v.t = "BOOL" -> v.b
      [] v.t = "NUM" -> ~isZero([num |-> v.num, den |-> v.den])
      [] v.t = "TEXT" -> v.s # <<>>
      [] OTHER -> FALSE

\* Value::toString (the model holds no List or Map value)
toString(v) ==
    CASE v.t = "NUM" -> doubleToString([num |-> v.num, den |-> v.den])
      [] v.t = "TEXT" -> v.s
      [] v.t = "BOOL" -> IF v.b THEN <<"t", "r", "u", "e">> ELSE <<"f", "a", "l", "s", "e">>
      [] v.t = "VOID" -> <<"v", "o", "i", "d">>
      [] OTHER -> <<"u", "n", "k", "n", "o", "w", "n">>

(***************************************************************************)
(* Runtime.  rt holds the fields of Runtime and what an evaluation leaves  *)
(* behind: the printed lines, the log of evaluated nodes, and whether the  *)
(* evaluation dereferenced a null ValuePtr (fault) or recursed without end *)
(* (overflow).                                                             *)
(***************************************************************************)
EmptyMap == [k \in {} |-> Void]

Put(m, k, v) == (k :> v) @@ m

RegisteredModules ==
    {"net", "file", "vm", "serve", "view", "play", "markdown", "web", "query",
     "database", "csv", "go", "channel", "run"}

pushScope(rt) == [rt EXCEPT !.scopes = Append(@, EmptyMap)]

\* popScope that leaves the top frame in place
popScopeKeeps(rt) == rt

popScope(rt) ==
    IF rt.scopes # <<>>
    THEN [rt EXCEPT !.scopes = SubSeq(@, 1, Len(@) - 1)]
    ELSE rt

RECURSIVE scopeLookup(_, _, _)
scopeLookup(scs, i, name) ==
    IF i = 0 THEN NullValue
    ELSE IF name \in DOMAIN scs[i] THEN scs[i][name]
    ELSE scopeLookup(scs, i - 1, name)

\* getVariable that searches the innermost frame and the globals only
getVariableTopOnly(rt, name) ==
    IF rt.scopes # <<>> /\ name \in DOMAIN rt.scopes[Len(rt.scopes)]
    THEN rt.scopes[Len(rt.scopes)][name]
    ELSE IF name \in DOMAIN rt.variables THEN rt.variables[name]
    ELSE Void

\* getVariable that returns no Value object for a name bound nowhere
getVariableAbsent(rt, name) ==
    IF \E i \in 1..Len(rt.scopes) : name \in DOMAIN rt.scopes[i]
    THEN scopeLookup(rt.scopes, Len(rt.scopes), name)
    ELSE IF name \in DOMAIN rt.variables THEN rt.variables[name]
    ELSE NullValue

\* name is the key as a string
getVariable(rt, name) ==
    LET s == scopeLookup(rt.scopes, Len(rt.scopes), name)
    IN IF \E i \in 1..Len(rt.scopes) : name \in DOMAIN rt.scopes[i] THEN s
       ELSE IF name \in DOMAIN rt.variables THEN rt.variables[name]
       ELSE Void

\* setVariable that writes the global table whatever frames are active
setVariableGlobal(rt, name, value) == [rt EXCEPT !.variables = Put(@, name, value)]

setVariable(rt, name, value) ==
    IF rt.scopes # <<>>
    THEN [rt EXCEPT !.scopes[Len(rt.scopes)] = Put(@, name, value)]
    ELSE [rt EXCEPT !.variables = Put(@, name, value)]

\* Runtime::print
print(rt, msg) == [rt EXCEPT !.output = Append(@, msg)]

\* reading through a ValuePtr: a null pointer is a fault
deref(rt, v) == IF v = NullValue THEN [rt EXCEPT !.fault = TRUE] ELSE rt

NewRuntime ==
    [variables |-> EmptyMap, functions |-> [k \in {} |-> NoFn], scopes |-> <<>>,
     output |-> <<>>, trace |-> <<>>, fault |-> FALSE, overflow |-> FALSE]

\* the evaluation cannot go on: the process has crashed
stopped(rt) == rt.fault \/ rt.overflow

ER(v, rt) == [v |-> v, rt |-> rt]

\* what evaluating one node yields: its value, the runtime after it and, for
\* a BINARY_OP, the values of its operands
NR(v, rt, l, r) == [v |-> v, rt |-> rt, l |-> l, r |-> r]

\* the log entry of one finished call of Runtime::evaluate
Ev(node, res, rtIn) ==
    [type |-> node.type, token |-> node.token, value |-> node.value,
     children |-> node.children,
     l |-> res.l, r |-> res.r, v |-> res.v,
     din |-> Len(rtIn.scopes), dout |-> Len(res.rt.scopes),
     same |-> /\ rtIn.variables = res.rt.variables
              /\ rtIn.scopes = res.rt.scopes
              /\ rtIn.functions = res.rt.functions,
     vin |-> rtIn.variables, vout |-> res.rt.variables,
     sin |-> rtIn.scopes, sout |-> res.rt.scopes,
     fin |-> DOMAIN rtIn.functions, fout |-> DOMAIN res.rt.functions,
     fsame |-> rtIn.functions = res.rt.functions,
     printed |-> Len(res.rt.output) - Len(rtIn.output)]

\* Module::call of a registered module.  FileModule answers an unknown
\* method with Bool(false), every other module with Void; VMModule and
\* PlayModule are modelled in full.
moduleCallResult(name, method, args) ==
    \* Value("VM created"): the const char* argument converts to bool by a
    \* standard conversion, which overload resolution prefers to std::string
    CASE name = "vm" /\ Str(method) = "make" -> Bool(TRUE)
      [] name = "play" /\ Str(method) \in {"game", "sprite", "render"} ->
            Text(<<"P", "l", "a", "y", ":", " ">> \o method)
      [] name = "file" /\ Str(method) \notin {"read", "write"} -> Bool(FALSE)
      [] name \in {"vm", "play"} -> Void
      [] name \notin {"vm", "play", "file"} /\ Str(method) = "" -> Void

\* divide whose zero test reads the left operand
divideGuardsLeft(lnum, rnum) == IF lnum.num = 0 THEN Rat(0, 1) ELSE RDiv(lnum, rnum)

\* if (rnum == 0.0) return 0.0; return lnum / rnum
divide(lnum, rnum) == IF isZero(rnum) THEN Rat(0, 1) ELSE RDiv(lnum, rnum)

\* if (rnum == 0.0) return 0.0; return std::fmod(lnum, rnum)
modulo(lnum, rnum) == IF isZero(rnum) THEN Rat(0, 1) ELSE RFmod(lnum, rnum)

\* std::abs(lnum - rnum) < 0.0001
nearlyEqual(lnum, rnum) == RLess(RAbs(RSub(lnum, rnum)), Rat(1, 10000))

\* the if-chain of the BINARY_OP case on op, the operands and their numbers;
\* NullValue when no branch matches (the case then breaks).  std::pow is
\* modelled for a natural exponent.
binaryOpOn(op, left, right, lnum, rnum) ==
    CASE op \in {"plus", "add", "+"} -> Number(RAdd(lnum, rnum))
      [] op \in {"minus", "subtract", "-"} -> Number(RSub(lnum, rnum))
      [] op \in {"times", "multiply", "*"} -> Number(RMul(lnum, rnum))
      [] op \in {"div", "divide", "/"} -> Number(divide(lnum, rnum))
      [] op \in {"mod", "%"} -> Number(modulo(lnum, rnum))
      [] op \in {"power", "^", "**"} -> Number(RPowNat(lnum, rnum.num))
      [] op \in {"over", "greater", ">"} -> Bool(RLess(rnum, lnum))
      [] op \in {"under", "less", "<"} -> Bool(RLess(lnum, rnum))
      [] op = ">=" -> Bool(RGeq(lnum, rnum))
      [] op = "<=" -> Bool(RGeq(rnum, lnum))
      [] op \in {"same", "equals", "is", "are", "==", "="} ->
             IF left.t = "TEXT" /\ right.t = "TEXT"
             THEN Bool(toString(left) = toString(right))
             ELSE Bool(nearlyEqual(lnum, rnum))
      [] op \in {"not", "notequal", "!="} ->
             IF left.t = "TEXT" /\ right.t = "TEXT"
             THEN Bool(toString(left) # toString(right))
             ELSE Bool(RGeq(RAbs(RSub(lnum, rnum)), Rat(1, 10000)))
      [] op \in {"and", "andalso", "&&"} -> Bool(toBool(left) /\ toBool(right))
      [] op \in {"or", "orelse", "||"} -> Bool(toBool(left) \/ toBool(right))
      [] OTHER -> NullValue

\* the value of a BINARY_OP from its operator and operand values
binaryOp(op, left, right) ==
    binaryOpOn(op, left, right, toNumber(left), toNumber(right))

\* the params / bodyIdx scan of the ACT case, over children[i..] (1-based)
RECURSIVE actScan(_, _, _)
actScan(children, i, params) ==
    IF i > Len(children) THEN [params |-> params, bodyIdx |-> Len(children)]
    ELSE IF children[i].type = "BLOCK" THEN [params |-> params, bodyIdx |-> i]
    ELSE actScan(children, i + 1, Append(params, Str(children[i].value)))

\* rt.setVariable(params[i], args[i]) for i < min(params, args)
RECURSIVE bindParams(_, _, _, _)
bindParams(rt, params, args, i) ==
    IF i <= Len(params) /\ i <= Len(args)
    THEN bindParams(setVariable(rt, params[i], args[i]), params, args, i + 1)
    ELSE rt

RECURSIVE printTimes(_, _, _)
printTimes(rt, msg, n) == IF n <= 0 THEN rt ELSE printTimes(print(rt, msg), msg, n - 1)

RECURSIVE evaluate(_, _, _)
RECURSIVE evalChildren(_, _, _, _, _)
RECURSIVE evalArgs(_, _, _, _, _)
RECURSIVE loopIterations(_, _, _, _, _, _)

\* a result that is no BINARY_OP's: the value v and the runtime rt
plain(v, rt) == NR(v, rt, NullValue, NullValue)

\* the result of an inner evaluation, returned as it is
of(r) == NR(r.v, r.rt, NullValue, NullValue)

\* result = evaluate(child) over children[i..]; last is the result so far,
\* r the result of children[i]
\* childrenNext that ends the list of statements at a GIVE
childrenNextEndsAtGive(children, i, r, depth) ==
    IF children[i].type = "GIVE" THEN ER(r.v, r.rt)
    ELSE evalChildren(children, i + 1, r.rt, r.v, depth)

childrenNext(children, i, r, depth) ==
    evalChildren(children, i + 1, r.rt, r.v, depth)

evalChildren(children, i, rt, last, depth) ==
    IF i > Len(children) \/ stopped(rt) THEN ER(last, rt)
    ELSE childrenNext(children, i, evaluate(children[i], rt, depth), depth)

\* args.push_back(evaluate(children[i])) over children[i..]; r is the result
\* of children[i]
argsNext(children, i, r, args, depth) ==
    evalArgs(children, i + 1, r.rt, Append(args, r.v), depth)

evalArgs(children, i, rt, args, depth) ==
    IF i > Len(children) \/ stopped(rt) THEN [args |-> args, rt |-> rt]
    ELSE argsNext(children, i, evaluate(children[i], rt, depth), args, depth)

\* functionReturn without the popScope() that ends the call
functionReturnKeepsScope(r) == ER(r.v, r.rt)

\* the closure built by the ACT case, called with args: the body r evaluated
\* in the pushed scope, then popScope
functionReturn(r) == ER(r.v, popScope(r.rt))

\* callFunction on a body whose child list an earlier evaluation emptied
callFunctionEmptied(fn, args, rt, depth) ==
    IF depth >= MaxDepth
    THEN ER(NullValue, [rt EXCEPT !.overflow = TRUE])
    ELSE functionReturn(evaluate([fn.node.children[fn.bodyIdx] EXCEPT !.children = <<>>],
                                 bindParams(pushScope(rt), fn.params, args, 1),
                                 depth + 1))

callFunction(fn, args, rt, depth) ==
    IF depth >= MaxDepth
    THEN ER(NullValue, [rt EXCEPT !.overflow = TRUE])
    ELSE functionReturn(evaluate(fn.node.children[fn.bodyIdx],
                                 bindParams(pushScope(rt), fn.params, args, 1),
                                 depth + 1))

\* loopNext without the popScope() that ends an iteration
loopNextKeepsScope(node, i, iterations, r, depth) ==
    loopIterations(node, i + 1, iterations, r.rt, r.v, depth)

\* the for loop of the LOOP case from iteration i; r is the body's result
loopNext(node, i, iterations, r, depth) ==
    loopIterations(node, i + 1, iterations, popScope(r.rt), r.v, depth)

loopIterations(node, i, iterations, rt, last, depth) ==
    IF stopped(rt) \/ ~RLess(Rat(i, 1), iterations) THEN ER(last, rt)
    ELSE loopNext(node, i, iterations,
                  evaluate(node.children[2],
                           setVariable(pushScope(rt), "step", Number(Rat(i, 1))),
                           depth),
                  depth)

\* case PROGRAM
evalProgram(node, rt, depth) ==
    of(evalChildren(node.children, 1, rt, NullValue, depth))

\* setVariable(name, value); return value
formBind(name, r) == plain(r.v, setVariable(r.rt, name, r.v))

\* case FORM: the name is children[1]->value, the value children[2]
evalForm(node, rt, depth) ==
    IF Len(node.children) >= 2
    THEN formBind(Str(node.children[2].value),
                  IF Len(node.children) > 2
                  THEN evaluate(node.children[3], rt, depth)
                  ELSE ER(Void, rt))
    ELSE plain(Void, rt)

\* functions[name] = func; return Value(func)
actDefine(name, fn, rt) ==
    plain(Func(fn), [rt EXCEPT !.functions = Put(@, name, fn)])

\* case ACT
evalAct(node, rt) ==
    IF Len(node.children) > 0
    THEN actDefine(Str(node.children[1].value),
                   [params |-> actScan(node.children, 2, <<>>).params,
                    bodyIdx |-> actScan(node.children, 2, <<>>).bodyIdx,
                    node |-> node],
                   rt)
    ELSE plain(Void, rt)

\* moduleIt->second->call(method, args, *this) with the evaluated args a
callModule(name, method, a) ==
    plain(moduleCallResult(name, method, a.args), a.rt)

\* funcIt->second(args, *this) with the evaluated args a
callRegular(fn, a, depth) ==
    IF stopped(a.rt) THEN plain(NullValue, a.rt)
    ELSE of(callFunction(fn, a.args, a.rt, depth))

\* case CALL with the function table consulted before the modules
evalCallFunctionFirst(node, rt, depth) ==
    IF Len(node.children) > 0
    THEN IF Str(node.children[1].value) \in DOMAIN rt.functions
         THEN callRegular(rt.functions[Str(node.children[1].value)],
                          evalArgs(node.children, 2, rt, <<>>, depth), depth)
         ELSE IF Len(node.children) > 1 /\ Str(node.children[1].value) \in RegisteredModules
         THEN callModule(Str(node.children[1].value), node.children[2].value,
                         evalArgs(node.children, 3, rt, <<>>, depth))
         ELSE plain(Void, rt)
    ELSE plain(Void, rt)

\* case CALL
evalCall(node, rt, depth) ==
    IF Len(node.children) > 0
    THEN IF Len(node.children) > 1 /\ Str(node.children[1].value) \in RegisteredModules
         THEN callModule(Str(node.children[1].value), node.children[2].value,
                         evalArgs(node.children, 3, rt, <<>>, depth))
         ELSE IF Str(node.children[1].value) \in DOMAIN rt.functions
         THEN callRegular(rt.functions[Str(node.children[1].value)],
                          evalArgs(node.children, 2, rt, <<>>, depth), depth)
         ELSE plain(Void, rt)
    ELSE plain(Void, rt)

\* the branch of the IF case on the condition's result c, read through its
\* pointer into the runtime rt1
ifBranch(node, c, rt1, depth) ==
    IF stopped(rt1) THEN plain(NullValue, rt1)
    ELSE IF toBool(c.v) THEN of(evaluate(node.children[2], rt1, depth))
    ELSE IF Len(node.children) > 2 THEN of(evaluate(node.children[3], rt1, depth))
    ELSE plain(Void, rt1)

\* the use of the condition's result c
ifOn(node, c, depth) == ifBranch(node, c, deref(c.rt, c.v), depth)

\* case IF
evalIf(node, rt, depth) ==
    IF Len(node.children) >= 2
    THEN ifOn(node, evaluate(node.children[1], rt, depth), depth)
    ELSE plain(Void, rt)

\* the iterations of the LOOP case on the count's result c, read through its
\* pointer into the runtime rt1
loopRun(node, c, rt1, depth) ==
    IF stopped(rt1) THEN plain(NullValue, rt1)
    ELSE of(loopIterations(node, 0, toNumber(c.v), rt1, NullValue, depth))

\* the use of the count's result c
loopOn(node, c, depth) == loopRun(node, c, deref(c.rt, c.v), depth)

\* case LOOP
evalLoop(node, rt, depth) ==
    IF Len(node.children) >= 2
    THEN loopOn(node, evaluate(node.children[1], rt, depth), depth)
    ELSE plain(Void, rt)

\* case GIVE
evalGive(node, rt, depth) ==
    IF Len(node.children) > 0 THEN of(evaluate(node.children[1], rt, depth))
    ELSE plain(Void, rt)

\* the named output of the SAY case, and its return
sayStore(node, v, rt3) ==
    plain(v, IF node.value # <<>> THEN setVariable(rt3, Str(node.value), v) ELSE rt3)

\* the print loop of the SAY case; rt2 is the runtime after value->toString()
\* was reached (or not, with no iteration)
sayLoop(node, v, rt2, repeatCount) ==
    IF stopped(rt2) THEN plain(NullValue, rt2)
    ELSE sayStore(node, v, printTimes(rt2, toString(v), repeatCount))

\* the SAY case from its value v and repeat count
sayPrint(node, v, rt1, repeatCount) ==
    sayLoop(node, v, IF repeatCount > 0 THEN deref(rt1, v) ELSE rt1, repeatCount)

\* repeatCount = static_cast<int>(evaluate(children[1])->toNumber()) from the
\* count's result c
sayRepeat(node, v, c) ==
    sayPrint(node, v, deref(c.rt, c.v), truncToInt(toNumber(c.v)))

\* the SAY case after its value's result e
sayOn(node, e, depth) ==
    IF Len(node.children) > 1 /\ node.children[2].type = "LITERAL"
    THEN sayRepeat(node, e.v, evaluate(node.children[2], e.rt, depth))
    ELSE sayPrint(node, e.v, e.rt, 1)

\* case SAY
evalSay(node, rt, depth) ==
    IF Len(node.children) > 0
    THEN sayOn(node, evaluate(node.children[1], rt, depth), depth)
    ELSE plain(Void, rt)

\* the PUT case after its value's result e
putOn(node, e) ==
    IF node.children[2].type = "IDENTIFIER"
    THEN plain(e.v, setVariable(e.rt, Str(node.children[2].value), e.v))
    ELSE plain(e.v, e.rt)

\* case PUT
evalPut(node, rt, depth) ==
    IF Len(node.children) >= 2
    THEN putOn(node, evaluate(node.children[1], rt, depth))
    ELSE IF Len(node.children) = 1 THEN of(evaluate(node.children[1], rt, depth))
    ELSE plain(Void, rt)

\* the value v of the BINARY_OP case, Void when the case breaks
binaryValue(v, rt1, l, r) ==
    IF stopped(rt1) THEN NR(NullValue, rt1, l, r)
    ELSE NR(IF v = NullValue THEN Void ELSE v, rt1, l, r)

\* the BINARY_OP case from the operands' results l and r, both read through
\* their pointers
binaryOn(node, l, r) ==
    binaryValue(binaryOp(Str(node.value), l.v, r.v), deref(deref(r.rt, l.v), r.v),
                l.v, r.v)

\* the BINARY_OP case after the left operand's result l
binaryRight(node, l, depth) ==
    binaryOn(node, l, evaluate(node.children[2], l.rt, depth))

\* case BINARY_OP
evalBinaryOp(node, rt, depth) ==
    IF Len(node.children) >= 2
    THEN binaryRight(node, evaluate(node.children[1], rt, depth), depth)
    ELSE plain(Void, rt)

\* the last branch of the LITERAL case: a number word, or else a variable
literalWord(node, rt, num) ==
    IF ~isZero(num) \/ Str(node.value) = "zero"
    THEN plain(Number(num), rt)
    ELSE plain(getVariable(rt, Str(node.value)), rt)

\* case LITERAL
evalLiteral(node, rt) ==
    IF node.token.type = "NUMBER"
    THEN plain(Number(orElse(stod(node.value), wordToNumber(node.value))), rt)
    ELSE IF node.token.type = "STRING" THEN plain(Text(node.value), rt)
    ELSE IF Str(node.value) = "true" THEN plain(Bool(TRUE), rt)
    ELSE IF Str(node.value) = "false" THEN plain(Bool(FALSE), rt)
    ELSE literalWord(node, rt, wordToNumber(node.value))

\* popScope() and return result, after the children of a BLOCK
blockReturn(r) == plain(r.v, popScope(r.rt))

\* case BLOCK
evalBlock(node, rt, depth) ==
    blockReturn(evalChildren(node.children, 1, pushScope(rt), NullValue, depth))

\* the switch of Runtime::evaluate on a non-null node
evalNode(node, rt, depth) ==
    CASE node.type = "PROGRAM" -> evalProgram(node, rt, depth)
      [] node.type = "FORM" -> evalForm(node, rt, depth)
      [] node.type = "ACT" -> evalAct(node, rt)
      [] node.type = "CALL" -> evalCall(node, rt, depth)
      [] node.type = "IF" -> evalIf(node, rt, depth)
      [] node.type = "LOOP" -> evalLoop(node, rt, depth)
      [] node.type = "GIVE" -> evalGive(node, rt, depth)
      [] node.type = "SAY" -> evalSay(node, rt, depth)
      [] node.type = "PUT" -> evalPut(node, rt, depth)
      [] node.type = "BINARY_OP" -> evalBinaryOp(node, rt, depth)
      [] node.type = "IDENTIFIER" -> plain(getVariable(rt, Str(node.value)), rt)
      [] node.type = "LITERAL" -> evalLiteral(node, rt)
      [] node.type = "BLOCK" -> evalBlock(node, rt, depth)
      [] OTHER -> plain(Void, rt)

\* the log of rt with the entry of this call
logged(node, res, rtIn) ==
    ER(res.v, [res.rt EXCEPT !.trace = Append(@, Ev(node, res, rtIn))])

\* Runtime::evaluate: a null node yields Void; every finished call is logged
evaluate(node, rt, depth) ==
    IF stopped(rt) THEN ER(NullValue, rt)
    ELSE IF node = NullNode THEN ER(Void, rt)
    ELSE logged(node, evalNode(node, rt, depth), rt)

\* The spelling of each word the source texts are written with.
W ==
    "/" :> <<"/">> @@
    "h" :> <<"h">> @@
    "b" :> <<"b">> @@
    "game" :> <<"g", "a", "m", "e">> @@
    "not-a-number" :> <<"n", "o", "t", "-", "a", "-", "n", "u", "m", "b", "e", "r">> @@
    "%" :> <<"%">> @@
    "form" :> <<"f", "o", "r", "m">> @@
    "act" :> <<"a", "c", "t">> @@
    "call" :> <<"c", "a", "l", "l">> @@
    "give" :> <<"g", "i", "v", "e">> @@
    "say" :> <<"s", "a", "y">> @@
    "do" :> <<"d", "o">> @@
    "end" :> <<"e", "n", "d">> @@
    "if" :> <<"i", "f">> @@
    "loop" :> <<"l", "o", "o", "p">> @@
    "over" :> <<"o", "v", "e", "r">> @@
    "under" :> <<"u", "n", "d", "e", "r">> @@
    "same" :> <<"s", "a", "m", "e">> @@
    "not" :> <<"n", "o", "t">> @@
    "and" :> <<"a", "n", "d">> @@
    "or" :> <<"o", "r">> @@
    "from" :> <<"f", "r", "o", "m">> @@
    "to" :> <<"t", "o">> @@
    "with" :> <<"w", "i", "t", "h">> @@
    "as" :> <<"a", "s">> @@
    "num" :> <<"n", "u", "m">> @@
    "text" :> <<"t", "e", "x", "t">> @@
    "list" :> <<"l", "i", "s", "t">> @@
    "map" :> <<"m", "a", "p">> @@
    "bool" :> <<"b", "o", "o", "l">> @@
    "void" :> <<"v", "o", "i", "d">> @@
    "put" :> <<"p", "u", "t">> @@
    "make" :> <<"m", "a", "k", "e">> @@
    "on" :> <<"o", "n">> @@
    "serve" :> <<"s", "e", "r", "v", "e">> @@
    "view" :> <<"v", "i", "e", "w">> @@
    "read" :> <<"r", "e", "a", "d">> @@
    "write" :> <<"w", "r", "i", "t", "e">> @@
    "net" :> <<"n", "e", "t">> @@
    "file" :> <<"f", "i", "l", "e">> @@
    "vm" :> <<"v", "m">> @@
    "play" :> <<"p", "l", "a", "y">> @@
    "else" :> <<"e", "l", "s", "e">> @@
    "plus" :> <<"p", "l", "u", "s">> @@
    "minus" :> <<"m", "i", "n", "u", "s">> @@
    "times" :> <<"t", "i", "m", "e", "s">> @@
    "div" :> <<"d", "i", "v">> @@
    "show" :> <<"s", "h", "o", "w">> @@
    "render" :> <<"r", "e", "n", "d", "e", "r">> @@
    "style" :> <<"s", "t", "y", "l", "e">> @@
    "button" :> <<"b", "u", "t", "t", "o", "n">> @@
    "btn" :> <<"b", "t", "n">> @@
    "input" :> <<"i", "n", "p", "u", "t">> @@
    "field" :> <<"f", "i", "e", "l", "d">> @@
    "image" :> <<"i", "m", "a", "g", "e">> @@
    "img" :> <<"i", "m", "g">> @@
    "label" :> <<"l", "a", "b", "e", "l">> @@
    "pane" :> <<"p", "a", "n", "e">> @@
    "box" :> <<"b", "o", "x">> @@
    "ul" :> <<"u", "l">> @@
    "start" :> <<"s", "t", "a", "r", "t">> @@
    "route" :> <<"r", "o", "u", "t", "e">> @@
    "post" :> <<"p", "o", "s", "t">> @@
    "delete" :> <<"d", "e", "l", "e", "t", "e">> @@
    "del" :> <<"d", "e", "l">> @@
    "static" :> <<"s", "t", "a", "t", "i", "c">> @@
    "files" :> <<"f", "i", "l", "e", "s">> @@
    "json" :> <<"j", "s", "o", "n">> @@
    "send" :> <<"s", "e", "n", "d">> @@
    "css" :> <<"c", "s", "s">> @@
    "link" :> <<"l", "i", "n", "k">> @@
    "head" :> <<"h", "e", "a", "d">> @@
    "body" :> <<"b", "o", "d", "y">> @@
    "title" :> <<"t", "i", "t", "l", "e">> @@
    "h1" :> <<"h", "1">> @@
    "h2" :> <<"h", "2">> @@
    "h3" :> <<"h", "3">> @@
    "p" :> <<"p">> @@
    "span" :> <<"s", "p", "a", "n">> @@
    "a" :> <<"a">> @@
    "select" :> <<"s", "e", "l", "e", "c", "t">> @@
    "option" :> <<"o", "p", "t", "i", "o", "n">> @@
    "table" :> <<"t", "a", "b", "l", "e">> @@
    "tr" :> <<"t", "r">> @@
    "td" :> <<"t", "d">> @@
    "th" :> <<"t", "h">> @@
    "header" :> <<"h", "e", "a", "d", "e", "r">> @@
    "footer" :> <<"f", "o", "o", "t", "e", "r">> @@
    "nav" :> <<"n", "a", "v">> @@
    "section" :> <<"s", "e", "c", "t", "i", "o", "n">> @@
    "article" :> <<"a", "r", "t", "i", "c", "l", "e">> @@
    "aside" :> <<"a", "s", "i", "d", "e">> @@
    "main" :> <<"m", "a", "i", "n">> @@
    "grid" :> <<"g", "r", "i", "d">> @@
    "row" :> <<"r", "o", "w">> @@
    "col" :> <<"c", "o", "l">> @@
    "card" :> <<"c", "a", "r", "d">> @@
    "let" :> <<"l", "e", "t">> @@
    "var" :> <<"v", "a", "r">> @@
    "const" :> <<"c", "o", "n", "s", "t">> @@
    "set" :> <<"s", "e", "t">> @@
    "create" :> <<"c", "r", "e", "a", "t", "e">> @@
    "new" :> <<"n", "e", "w">> @@
    "def" :> <<"d", "e", "f">> @@
    "fn" :> <<"f", "n">> @@
    "func" :> <<"f", "u", "n", "c">> @@
    "return" :> <<"r", "e", "t", "u", "r", "n">> @@
    "print" :> <<"p", "r", "i", "n", "t">> @@
    "output" :> <<"o", "u", "t", "p", "u", "t">> @@
    "display" :> <<"d", "i", "s", "p", "l", "a", "y">> @@
    "when" :> <<"w", "h", "e", "n">> @@
    "then" :> <<"t", "h", "e", "n">> @@
    "while" :> <<"w", "h", "i", "l", "e">> @@
    "for" :> <<"f", "o", "r">> @@
    "each" :> <<"e", "a", "c", "h">> @@
    "repeat" :> <<"r", "e", "p", "e", "a", "t">> @@
    "until" :> <<"u", "n", "t", "i", "l">> @@
    "break" :> <<"b", "r", "e", "a", "k">> @@
    "continue" :> <<"c", "o", "n", "t", "i", "n", "u", "e">> @@
    "switch" :> <<"s", "w", "i", "t", "c", "h">> @@
    "case" :> <<"c", "a", "s", "e">> @@
    "equals" :> <<"e", "q", "u", "a", "l", "s">> @@
    "is" :> <<"i", "s">> @@
    "are" :> <<"a", "r", "e">> @@
    "has" :> <<"h", "a", "s">> @@
    "have" :> <<"h", "a", "v", "e">> @@
    "contains" :> <<"c", "o", "n", "t", "a", "i", "n", "s">> @@
    "include" :> <<"i", "n", "c", "l", "u", "d", "e">> @@
    "add" :> <<"a", "d", "d">> @@
    "subtract" :> <<"s", "u", "b", "t", "r", "a", "c", "t">> @@
    "multiply" :> <<"m", "u", "l", "t", "i", "p", "l", "y">> @@
    "divide" :> <<"d", "i", "v", "i", "d", "e">> @@
    "mod" :> <<"m", "o", "d">> @@
    "power" :> <<"p", "o", "w", "e", "r">> @@
    "sqrt" :> <<"s", "q", "r", "t">> @@
    "greater" :> <<"g", "r", "e", "a", "t", "e", "r">> @@
    "less" :> <<"l", "e", "s", "s">> @@
    "equal" :> <<"e", "q", "u", "a", "l">> @@
    "notequal" :> <<"n", "o", "t", "e", "q", "u", "a", "l">> @@
    "andalso" :> <<"a", "n", "d", "a", "l", "s", "o">> @@
    "orelse" :> <<"o", "r", "e", "l", "s", "e">> @@
    "color" :> <<"c", "o", "l", "o", "r">> @@
    "background" :> <<"b", "a", "c", "k", "g", "r", "o", "u", "n", "d">> @@
    "bg" :> <<"b", "g">> @@
    "width" :> <<"w", "i", "d", "t", "h">> @@
    "height" :> <<"h", "e", "i", "g", "h", "t">> @@
    "margin" :> <<"m", "a", "r", "g", "i", "n">> @@
    "padding" :> <<"p", "a", "d", "d", "i", "n", "g">> @@
    "border" :> <<"b", "o", "r", "d", "e", "r">> @@
    "radius" :> <<"r", "a", "d", "i", "u", "s">> @@
    "shadow" :> <<"s", "h", "a", "d", "o", "w">> @@
    "font" :> <<"f", "o", "n", "t">> @@
    "size" :> <<"s", "i", "z", "e">> @@
    "weight" :> <<"w", "e", "i", "g", "h", "t">> @@
    "family" :> <<"f", "a", "m", "i", "l", "y">> @@
    "align" :> <<"a", "l", "i", "g", "n">> @@
    "center" :> <<"c", "e", "n", "t", "e", "r">> @@
    "left" :> <<"l", "e", "f", "t">> @@
    "right" :> <<"r", "i", "g", "h", "t">> @@
    "justify" :> <<"j", "u", "s", "t", "i", "f", "y">> @@
    "flex" :> <<"f", "l", "e", "x">> @@
    "position" :> <<"p", "o", "s", "i", "t", "i", "o", "n">> @@
    "absolute" :> <<"a", "b", "s", "o", "l", "u", "t", "e">> @@
    "relative" :> <<"r", "e", "l", "a", "t", "i", "v", "e">> @@
    "fixed" :> <<"f", "i", "x", "e", "d">> @@
    "sticky" :> <<"s", "t", "i", "c", "k", "y">> @@
    "top" :> <<"t", "o", "p">> @@
    "bottom" :> <<"b", "o", "t", "t", "o", "m">> @@
    "zindex" :> <<"z", "i", "n", "d", "e", "x">> @@
    "opacity" :> <<"o", "p", "a", "c", "i", "t", "y">> @@
    "transform" :> <<"t", "r", "a", "n", "s", "f", "o", "r", "m">> @@
    "transition" :> <<"t", "r", "a", "n", "s", "i", "t", "i", "o", "n">> @@
    "animation" :> <<"a", "n", "i", "m", "a", "t", "i", "o", "n">> @@
    "hover" :> <<"h", "o", "v", "e", "r">> @@
    "active" :> <<"a", "c", "t", "i", "v", "e">> @@
    "focus" :> <<"f", "o", "c", "u", "s">> @@
    "visited" :> <<"v", "i", "s", "i", "t", "e", "d">> @@
    "x" :> <<"x">> @@
    "y" :> <<"y">> @@
    "f" :> <<"f">> @@
    "g" :> <<"g">> @@
    "step" :> <<"s", "t", "e", "p">> @@
    "declare" :> <<"d", "e", "c", "l", "a", "r", "e">> @@
    "define" :> <<"d", "e", "f", "i", "n", "e">> @@
    "init" :> <<"i", "n", "i", "t">> @@
    "function" :> <<"f", "u", "n", "c", "t", "i", "o", "n">> @@
    "method" :> <<"m", "e", "t", "h", "o", "d">> @@
    "procedure" :> <<"p", "r", "o", "c", "e", "d", "u", "r", "e">> @@
    "whenever" :> <<"w", "h", "e", "n", "e", "v", "e", "r">> @@
    "provided" :> <<"p", "r", "o", "v", "i", "d", "e", "d">> @@
    "assuming" :> <<"a", "s", "s", "u", "m", "i", "n", "g">> @@
    "given" :> <<"g", "i", "v", "e", "n">> @@
    "foreach" :> <<"f", "o", "r", "e", "a", "c", "h">> @@
    "iterate" :> <<"i", "t", "e", "r", "a", "t", "e">> @@
    "yield" :> <<"y", "i", "e", "l", "d">> @@
    "log" :> <<"l", "o", "g">> @@
    "echo" :> <<"e", "c", "h", "o">> @@
    "assign" :> <<"a", "s", "s", "i", "g", "n">> @@
    "update" :> <<"u", "p", "d", "a", "t", "e">> @@
    "name" :> <<"n", "a", "m", "e">> @@
    "true" :> <<"t", "r", "u", "e">> @@
    "false" :> <<"f", "a", "l", "s", "e">> @@
    "finish" :> <<"f", "i", "n", "i", "s", "h">> @@
    "done" :> <<"d", "o", "n", "e">> @@
    "begin" :> <<"b", "e", "g", "i", "n">> @@
    "otherwise" :> <<"o", "t", "h", "e", "r", "w", "i", "s", "e">> @@
    "becomes" :> <<"b", "e", "c", "o", "m", "e", "s">> @@
    "web" :> <<"w", "e", "b">> @@
    "markdown" :> <<"m", "a", "r", "k", "d", "o", "w", "n">> @@
    "query" :> <<"q", "u", "e", "r", "y">> @@
    "database" :> <<"d", "a", "t", "a", "b", "a", "s", "e">> @@
    "csv" :> <<"c", "s", "v">> @@
    "go" :> <<"g", "o">> @@
    "channel" :> <<"c", "h", "a", "n", "n", "e", "l">> @@
    "run" :> <<"r", "u", "n">> @@
    "h4" :> <<"h", "4">> @@
    "ol" :> <<"o", "l">> @@
    "li" :> <<"l", "i">> @@
    "twelve" :> <<"t", "w", "e", "l", "v", "e">> @@
    "0" :> <<"0">> @@
    "1" :> <<"1">> @@
    "2" :> <<"2">> @@
    "3" :> <<"3">> @@
    "4" :> <<"4">> @@
    "5" :> <<"5">> @@
    "7" :> <<"7">> @@
    "10" :> <<"1", "0">> @@
    "1.5" :> <<"1", ".", "5">> @@
    "\"Hello\"" :> <<"\"", "H", "e", "l", "l", "o", "\"">> @@
    "\"yes\"" :> <<"\"", "y", "e", "s", "\"">> @@
    "\"no\"" :> <<"\"", "n", "o", "\"">> @@
    "\"\"" :> <<"\"", "\"">> @@
    "\"twelve\"" :> <<"\"", "t", "w", "e", "l", "v", "e", "\"">>

(***************************************************************************)
(* Source texts.                                                           *)
(***************************************************************************)
RECURSIVE Join(_)
Join(ws) ==
    IF ws = <<>> THEN <<>>
    ELSE IF Len(ws) = 1 THEN W[ws[1]]
    ELSE W[ws[1]] \o <<" ">> \o Join(Tail(ws))

\* the text that spells the words ws, separated by single spaces
Src(ws) == Join(ws)

\* every sequence over S of length at most n
RECURSIVE SeqsUpTo(_, _)
SeqsUpTo(S, n) ==
    IF n = 0 THEN {<<>>}
    ELSE LET shorter == SeqsUpTo(S, n - 1)
         IN shorter \cup {Append(s, c) : s \in {t \in shorter : Len(t) = n - 1}, c \in S}

\* the characters of the texts handed to the lexer alone
LexAlphabet == {"a", "1", ".", "\n", "/", "*", "\"", "\\"}

CharTexts == SeqsUpTo(LexAlphabet, MaxSrcLen)

\* the words parse() dispatches on to a statement production
StatementWords ==
    FormWords \cup ActWords \cup IfWords \cup LoopWords \cup GiveDispatchWords
        \cup SayWords \cup PutWords

\* the operators of parseBinaryOp's table and two keywords that are not in it
ExpressionWords == DOMAIN opPrecedence \cup {"mod", "power"}

\* the words of the texts handed to lexer and parser
ParseVocab == {"say", "give", "send", "if", "do", "end", "else", "loop", "act",
               "call", "x", "1", "plus", "h1", "net"}

WordTexts ==
    {Src(ws) : ws \in SeqsUpTo(ParseVocab, MaxToks)}
    \cup {Src(<<k>>) : k \in keywords}
    \cup {Src(<<"loop", "x", "do", k>>) : k \in keywords}
    \cup {Src(<<w>>) : w \in StatementWords}
    \cup {Src(<<w, "x">>) : w \in StatementWords}
    \cup {Src(<<"give", "x", o1, "1", o2, "y">>) : o1 \in ExpressionWords, o2 \in ExpressionWords}

\* the programs handed to Runtime::execute
Programs ==
    {Src(ws) : ws \in {
        <<>>,
        <<"say", "\"Hello\"">>,
        <<"declare", "x", "from", "5">>,
        <<"declare", "x", "from", "5", "give", "x">>,
        <<"form", "x", "from", "5">>,
        <<"give", "x">>,
        <<"form", "x", "from", "3", "plus", "4", "say", "x">>,
        <<"if", "1", "over", "0", "do", "say", "\"yes\"", "end",
          "else", "do", "say", "\"no\"", "end">>,
        <<"loop", "3", "do", "say", "step", "end">>,
        <<"say", "10", "div", "0">>,
        <<"form", "num", "x", "from", "1", "same", "1">>,
        <<"form", "num", "x", "from", "x", "plus", "x">>,
        <<"give", "x", "div", "x", "plus", "x">>,
        <<"give", "x", "div", "0">>,
        <<"if", "x", "do", "say", "\"yes\"", "end",
          "else", "do", "say", "\"no\"", "end">>,
        <<"loop", "x", "do", "say", "step", "end">>,
        <<"act", "f", "do", "say", "\"Hello\"", "end", "call", "f">>,
        <<"act", "f", "do", "call", "f", "end", "call", "f">>,
        <<"loop", "x", "do", "send", "x", "end">>,
        <<"put", "x", "same", "x", "to", "y">>,
        <<"say", "\"Hello\"", "3">>,
        <<"3", "say", "\"Hello\"">>,
        <<"h1", "x">>,
        <<"net", "x", "y">>
     }}

(***************************************************************************)
(* Trees built by a host.  Runtime::evaluate is public: a host can build   *)
(* ASTNodes, assign their value field and hand them to a Runtime whose     *)
(* variables earlier evaluations have bound.                               *)
(***************************************************************************)
\* an ASTNode over Token(ttype, text) whose value field the host set to text
HostNode(type, ttype, text) ==
    [ASTNode(type, Token(ttype, text, 0, 0)) EXCEPT !.value = text]

HostOperands ==
    {HostNode("LITERAL", "NUMBER", <<"0">>),
     HostNode("LITERAL", "NUMBER", <<"0", ".", "0">>),
     HostNode("LITERAL", "NUMBER", <<"7">>),
     HostNode("LITERAL", "NUMBER", <<"2", ".", "5">>),
     HostNode("LITERAL", "STRING", <<>>),
     HostNode("LITERAL", "STRING", <<"a">>),
     HostNode("LITERAL", "STRING", <<"-", "0">>),
     HostNode("LITERAL", "STRING", <<"3">>),
     HostNode("LITERAL", "STRING", <<"z", "e", "r", "o">>),
     HostNode("LITERAL", "STRING", W["twelve"]),
     HostNode("LITERAL", "STRING", W["not-a-number"]),
     HostNode("LITERAL", "IDENTIFIER", <<"t", "r", "u", "e">>),
     HostNode("LITERAL", "IDENTIFIER", <<"f", "a", "l", "s", "e">>),
     HostNode("LITERAL", "IDENTIFIER", <<"t", "e", "n">>),
     HostNode("IDENTIFIER", "IDENTIFIER", <<"x">>),
     HostNode("IDENTIFIER", "IDENTIFIER", <<"y">>)}

HostOps == {"div", "divide", "/", "mod", "%", "plus", "same", "not"}

\* the bindings left in Runtime::variables by earlier evaluations
HostBindings ==
    {EmptyMap,
     Put(EmptyMap, "x", Number(Rat(0, 1))),
     Put(EmptyMap, "x", Number(Rat(-5, 1))),
     Put(Put(EmptyMap, "x", Text(<<"0">>)), "y", Bool(FALSE))}

\* a BINARY_OP node with its value field set to the operator
BinaryOf(op, l, r) == AddChild(AddChild(HostNode("BINARY_OP", "KEYWORD", W[op]), l), r)

HostBinaryTrees ==
    {BinaryOf(op, l, r) : op \in HostOps, l \in HostOperands, r \in HostOperands}

\* leaves: a number literal, a string literal, an identifier
Num(cs) == HostNode("LITERAL", "NUMBER", cs)

Txt(cs) == HostNode("LITERAL", "STRING", cs)

Var(name) == HostNode("IDENTIFIER", "IDENTIFIER", W[name])

\* a statement node as the parser leaves it (value field empty), over a
\* keyword token that carries the line ln
Statement(type, kw, ln, children) ==
    [ASTNode(type, Token("KEYWORD", W[kw], ln, 0)) EXCEPT !.children = children]

Program(statements) == Statement("PROGRAM", "do", 0, statements)

Block(ln, statements) == Statement("BLOCK", "do", ln, statements)

\* children [type, name, value], as parseForm builds them with a type token
Form(ln, name, value) == Statement("FORM", "form", ln, <<Var("num"), Var(name), value>>)

\* children [type, name]: a declaration without a value
FormBare(ln, name) == Statement("FORM", "form", ln, <<Var("num"), Var(name)>>)

\* children [value, target]
Assign(ln, value, name) == Statement("PUT", "put", ln, <<value, Var(name)>>)

Loop(ln, count, body) == Statement("LOOP", "loop", ln, <<count, body>>)

Give(ln, value) == Statement("GIVE", "give", ln, <<value>>)

Say(ln, value) == Statement("SAY", "say", ln, <<value>>)

\* children [name, parameters..., body]
Act(ln, name, params, body) ==
    Statement("ACT", "act", ln,
              <<Var(name)>> \o [i \in 1..Len(params) |-> Var(params[i])] \o <<body>>)

\* children [name, arguments...] (for a module: [name, method, arguments...])
Call(ln, name, args) == Statement("CALL", "call", ln, <<Var(name)>> \o args)

\* a declaration inside a loop body, and a lookup after the loop
LoopDeclarePrograms ==
    {Program(<<Loop(1, Num(n), body), Give(2, Var(v))>>) :
        n \in {<<"0">>, <<"2">>},
        v \in {"x", "y", "step"},
        body \in {Block(3, <<Form(4, "x", Var("step"))>>),
                  Form(4, "x", Num(<<"7">>)),
                  Block(3, <<FormBare(4, "y"), Say(5, Var("step"))>>)}}

\* operands of comparisons: equal and nearly equal numbers as Number and as
\* Text, and a text that std::stod reads as NaN
EqualityOperands ==
    {Num(<<"1">>), Num(<<"1", ".", "0", "0", "1">>),
     Txt(<<"1">>), Txt(<<"1", ".", "0">>), Txt(<<"n", "a", "n">>), Var("x")}

\* 1.00001 is compared with the literals only: its exact difference from
\* another number of five decimals, or from -5, is beyond the integers of
\* the checker
EqualityTrees ==
    {BinaryOf(op, l, r) :
        op \in {"same", "not"}, l \in EqualityOperands, r \in EqualityOperands}
    \cup {BinaryOf(op, Num(<<"1", ".", "0", "0", "0", "0", "1">>), r) :
        op \in {"same", "not"}, r \in EqualityOperands \ {Var("x")}}

\* the counts of the loops whose iterations are counted
LoopCounts ==
    {<<"0">>, <<"1">>, <<"2">>, <<"2", ".", "5">>, <<"0", ".", "5">>,
     <<"-", "1">>, <<"-", "0", ".", "5">>}

\* a loop whose body prints step once in every iteration
LoopCountPrograms ==
    {Program(<<Loop(1, Num(c), Block(2, <<Say(3, Var("step"))>>))>>) : c \in LoopCounts}

\* a program, a block and a called function body without statements
EmptyBodyPrograms ==
    {Program(<<>>),
     Program(<<Block(1, <<>>)>>),
     Program(<<Act(1, "f", <<>>, Block(2, <<>>)), Call(3, "f", <<>>)>>),
     Program(<<Act(1, "f", <<>>, Block(2, <<>>)), Call(3, "f", <<>>), Num(<<"1">>)>>)}

\* x declared before a loop and assigned inside it, then looked up
AssignInLoopPrograms ==
    {Program(<<Form(1, "x", Num(<<"1">>)),
               Loop(2, Num(n), Block(3, <<Assign(4, Num(<<"5">>), "x")>>)),
               Give(5, Var("x"))>>) : n \in {<<"1">>, <<"2">>}}

\* the bodies of the functions called twice
CallBodies ==
    {Block(4, <<Var("a")>>),
     Block(4, <<Form(5, "x", BinaryOf("plus", Var("x"), Num(<<"1">>))),
                Say(6, Var("x"))>>),
     Block(4, <<Act(5, "h", <<>>,
                    Block(6, <<Act(7, "g", <<>>, Block(8, <<Num(<<"5">>)>>))>>)),
                BinaryOf("plus", Call(9, "g", <<>>), Call(10, "h", <<>>))>>)}

\* one FunctionDef, then the same call twice (on lines 2 and 3)
CallTwicePrograms ==
    {Program(<<Act(1, "f", params, body), Call(2, "f", args), Call(3, "f", args)>>) :
        params \in {<<>>, <<"a">>},
        args \in {<<>>, <<Num(<<"7">>)>>},
        body \in CallBodies}

\* a function that prints a, then a call (on line 2) of a module or function
ModuleCallPrograms ==
    {Program(<<Act(1, name, <<>>, Block(4, <<Say(5, Txt(<<"a">>))>>)),
               Call(2, callee, rest)>>) :
        name \in {"play", "f"},
        callee \in {"play", "vm", "file", "f", "g"},
        rest \in {<<>>,
                  <<Var("game")>>,
                  <<Var("make")>>,
                  <<Var("game"), Say(6, Txt(<<"1">>)), Say(7, Txt(<<"2">>))>>}}

\* declarations in nested blocks that shadow outer names
ShadowPrograms ==
    {Program(<<Form(1, "x", Num(<<"1">>)),
               Block(2, <<Form(3, "x", Num(<<"2">>)), Give(4, Var("x"))>>),
               Give(5, Var("x"))>>),
     Program(<<Block(2, <<Form(3, "x", Num(<<"2">>)),
                          Block(6, <<Form(7, "x", Num(<<"7">>)), FormBare(8, "y")>>),
                          Give(4, Var("x"))>>),
               Give(5, Var("x"))>>),
     Program(<<Loop(1, Num(<<"2">>),
                    Block(2, <<Form(3, "step", Txt(<<"a">>)), Give(4, Var("step"))>>)),
               FormBare(5, "x"),
               Give(6, Var("x"))>>)}

\* f reads the free variable y; it is called (line 5) where an inner y is
\* live and (line 6) at top level
LateBoundPrograms ==
    {Program(<<Form(1, "y", Num(<<"1">>)),
               Act(2, "f", <<>>, Block(7, <<Var("y")>>)),
               Block(3, <<Form(4, "y", Num(<<"2">>)), Call(5, "f", <<>>)>>),
               Call(6, "f", <<>>)>>),
     Program(<<Block(3, <<Form(4, "y", Num(<<"2">>)),
                          Act(2, "f", <<>>, Block(7, <<Var("y")>>)),
                          Call(5, "f", <<>>)>>),
               Form(1, "y", Num(<<"1">>)),
               Call(6, "f", <<>>)>>)}

\* the arguments handed to f
HostArguments ==
    {<<>>, <<Num(<<"7">>)>>, <<Num(<<"7">>), Txt(<<"a">>)>>,
     <<Num(<<"7">>), Txt(<<"a">>), Num(<<"2", ".", "5">>)>>}

\* f with parameters params returns its parameter p; it is called on line 2
ParameterPrograms ==
    {Program(<<Act(1, "f", params, Block(3, <<Var(p)>>)), Call(2, "f", args)>>) :
        params \in {<<"x">>, <<"x", "y">>},
        args \in HostArguments,
        p \in {"x", "y"}}

\* operands of every kind added to 0: a function value, an unbound name, ...
CoercionTrees ==
    {BinaryOf("plus", l, Num(<<"0">>)) :
        l \in HostOperands \cup {Act(1, "f", <<>>, Block(2, <<>>))}}

\* a give followed by more statements: in a function body (called on line
\* 5), in a loop body and at top level
GiveThenPrograms ==
    {Program(<<Act(1, "f", <<>>,
                   Block(2, <<Give(3, Num(<<"1">>)), Say(4, Txt(<<"a">>)), Num(<<"2">>)>>)),
               Call(5, "f", <<>>)>>),
     Program(<<Loop(1, Num(<<"2">>), Block(2, <<Give(3, Var("step")), Say(4, Txt(<<"a">>))>>))>>),
     Program(<<Give(3, Num(<<"1">>)), Say(4, Txt(<<"a">>))>>)}

\* the two bespoke words of numberWords, as Text, times 1
NumberWordTrees ==
    {BinaryOf("times", Txt(<<"f", "o", "u", "r", "_", "g">>), Num(<<"1">>)),
     BinaryOf("times",
              Txt(<<"f", "o", "u", "r", "_", "z", "e", "r", "o", "_", "z", "e", "r", "o",
                    "_", "z", "e", "r", "o">>),
              Num(<<"1">>))}

HostPrograms ==
    LoopDeclarePrograms \cup AssignInLoopPrograms \cup CallTwicePrograms
    \cup ModuleCallPrograms \cup ShadowPrograms \cup LateBoundPrograms
    \cup ParameterPrograms \cup CoercionTrees \cup LoopCountPrograms
    \cup EmptyBodyPrograms \cup GiveThenPrograms

HostTrees == HostBinaryTrees \cup EqualityTrees \cup NumberWordTrees \cup HostPrograms

(***************************************************************************)
(* Runtime::execute as a state machine.                                    *)
(*   phase "lex"      inside Lexer::tokenize                               *)
(*   phase "parse"    inside Parser::parse                                 *)
(*   phase "hang"     Parser::parse repeats one iteration without end      *)
(*   phase "eval"     before Runtime::evaluate(ast)                        *)
(*   phase "returned" execute has returned `result` to its caller          *)
(*   phase "crashed"  the process died                                     *)
(*   phase "done"     the caller has used the result                       *)
(***************************************************************************)
rtOf == [variables |-> variables, functions |-> functions, scopes |-> scopes,
         output |-> output, trace |-> <<>>, fault |-> FALSE, overflow |-> FALSE]

\* Lexer(source): pos(0), line(1), col(1); Runtime(): empty tables
StartOn(src) ==
    /\ source = src
    /\ pos = 0 /\ line = 1 /\ col = 1
    /\ tokens = <<>>
    /\ ppos = 0
    /\ ast = NullNode
    /\ variables = NewRuntime.variables
    /\ functions = NewRuntime.functions
    /\ scopes = <<>>
    /\ output = <<>>
    /\ trace = <<>>
    /\ result = NullValue
    /\ executed = <<>>
    /\ runs = 1

Init == \E src \in Programs : StartOn(src) /\ phase = "lex"

InitLex == \E src \in CharTexts : StartOn(src) /\ phase = "lex"

InitParse == \E src \in WordTexts : StartOn(src) /\ phase = "lex"

\* a function of one parameter called with an argument
CallTexts == {Src(<<"act", "f", "x", "do", "give", "x", "end", "call", "f", "5">>)}

\* Runtime::execute on the texts of the parser and on the programs
InitRun == \E src \in WordTexts \cup Programs \cup CallTexts : StartOn(src) /\ phase = "lex"

\* a host's Runtime about to evaluate a tree the host built
InitEval ==
    \E tree \in HostTrees, bound \in HostBindings :
        /\ source = <<>>
        /\ pos = 0 /\ line = 1 /\ col = 1
        /\ tokens = <<>>
        /\ ppos = 0
        /\ ast = tree
        /\ variables = bound
        /\ functions = NewRuntime.functions
        /\ scopes = <<>>
        /\ output = <<>>
        /\ trace = <<>>
        /\ result = NullValue
        /\ executed = <<>>
        /\ runs = MaxRuns
        /\ phase = "eval"

runtimeVars == <<variables, functions, scopes, output, trace, result>>

\* the lexer's fields and the tokens after the loop iteration r
Lexed(r) ==
    /\ pos' = r.st.pos
    /\ line' = r.st.line
    /\ col' = r.st.col
    /\ tokens' = r.toks

\* one iteration of the while loop of Lexer::tokenize
LexStep ==
    /\ phase = "lex"
    /\ pos < Len(source)
    /\ Lexed(tokenizeStep(source, LexState(pos, line, col), tokens))
    /\ UNCHANGED <<source, ppos, ast, runtimeVars, executed, phase, runs>>

\* the loop of tokenize is over: push EOF_TOKEN, return, and construct the
\* Parser and its Program node
LexEnd ==
    /\ phase = "lex"
    /\ pos >= Len(source)
    /\ tokens' = Append(tokens, Token("EOF_TOKEN", <<>>, line, col))
    /\ ppos' = 0
    /\ ast' = ASTNode("PROGRAM", current(tokens', 0))
    /\ phase' = "parse"
    /\ UNCHANGED <<source, pos, line, col, runtimeVars, executed, runs>>

\* the parser's position and the tree after the loop iteration r
Parsed(r) ==
    /\ ppos' = r.pos
    /\ ast' = r.node
    /\ phase' = IF r.hang THEN "hang" ELSE "parse"

\* one iteration of the while loop of Parser::parse
ParseStep ==
    /\ phase = "parse"
    /\ ppos < Len(tokens) /\ current(tokens, ppos).type # "EOF_TOKEN"
    /\ Parsed(programStep(tokens, ppos, ast))
    /\ UNCHANGED <<source, pos, line, col, tokens, runtimeVars, executed, runs>>

\* the loop of Parser::parse is over: return program
ParseEnd ==
    /\ phase = "parse"
    /\ ~(ppos < Len(tokens) /\ current(tokens, ppos).type # "EOF_TOKEN")
    /\ phase' = "eval"
    /\ UNCHANGED <<source, pos, line, col, tokens, ppos, ast, runtimeVars,
                   executed, runs>>

\* the runtime's fields and the returned value after the evaluation r
Evaluated(r) ==
    /\ variables' = r.rt.variables
    /\ functions' = r.rt.functions
    /\ scopes' = r.rt.scopes
    /\ output' = r.rt.output
    /\ trace' = r.rt.trace
    /\ result' = r.v
    /\ phase' = IF stopped(r.rt) THEN "crashed" ELSE "returned"

\* return evaluate(ast)
Evaluate ==
    /\ phase = "eval"
    /\ Evaluated(evaluate(ast, rtOf, 0))
    /\ UNCHANGED <<source, pos, line, col, tokens, ppos, ast, executed, runs>>

\* the caller reads the result (result->type in main, value->toString() in
\* azalea_execute).  Reading through a null result is undefined: the process
\* may die there or go on with whatever it read.
UseResult ==
    /\ phase = "returned"
    /\ phase' \in (IF result = NullValue THEN {"crashed", "done"} ELSE {"done"})
    /\ UNCHANGED <<source, pos, line, col, tokens, ppos, ast, runtimeVars,
                   executed, runs>>

\* azalea_execute again on the same Runtime (g_runtime), with a new text
Execute ==
    /\ phase = "done"
    /\ runs < MaxRuns
    /\ \E src \in Programs :
          /\ source' = src
          /\ pos' = 0 /\ line' = 1 /\ col' = 1
          /\ tokens' = <<>>
          /\ ppos' = 0
          /\ ast' = NullNode
          /\ trace' = <<>>
          /\ result' = NullValue
          /\ executed' = Append(executed, source)
          /\ runs' = runs + 1
          /\ phase' = "lex"
    /\ UNCHANGED <<variables, functions, scopes, output>>

Next == LexStep \/ LexEnd \/ ParseStep \/ ParseEnd \/ Evaluate \/ UseResult \/ Execute

NextLex == LexStep \/ LexEnd

NextParse == LexStep \/ LexEnd \/ ParseStep \/ ParseEnd

NextEval == Evaluate \/ UseResult

\* Runtime::execute on the texts of the parser: tokenize, parse, evaluate
NextRun == LexStep \/ LexEnd \/ ParseStep \/ ParseEnd \/ Evaluate \/ UseResult

Spec == Init /\ [][Next]_vars

SpecLex == InitLex /\ [][NextLex]_vars

SpecParse == InitParse /\ [][NextParse]_vars

SpecEval == InitEval /\ [][NextEval]_vars

SpecRun == InitRun /\ [][NextRun]_vars

(***************************************************************************)
(* Properties.                                                             *)
(***************************************************************************)
\* the first execute on a new Runtime has returned to its caller
firstReturned == executed = <<>> /\ phase \in {"returned", "done"}

\* C1: for every source text Runtime::execute returns normally with a valid
\* Value: the process never dies and the caller is never handed a null result.
C1_ExecuteReturnsValue ==
    /\ phase # "crashed"
    /\ phase \in {"returned", "done"} => result # NullValue

\* C2: Parser::parse terminates on every token sequence of the tokenizer:
\* no iteration of the top-level loop or of the block loop leaves the
\* position where it was, whatever keyword is current.
C2_ParseConsumes == phase # "hang"

\* C3: Lexer::tokenize terminates (every iteration of its loop moves pos
\* forward, and pos is bounded by the length of the text) and the list it
\* returns holds exactly one EOF_TOKEN, which is its last element.
C3_OneEofLast ==
    /\ [](phase = "parse" =>
            /\ tokens # <<>>
            /\ \A i \in 1..Len(tokens) :
                  (tokens[i].type = "EOF_TOKEN") <=> (i = Len(tokens)))
    /\ [][phase = "lex" /\ phase' = "lex" => pos' > pos]_vars

\* tokenize returned a list with tokens before the EOF_TOKEN, after skipping
\* a comment
C3_Witness ==
    /\ phase = "parse"
    /\ Len(tokens) >= 3
    /\ \E i \in 1..Len(source) - 1 : source[i] = "/" /\ source[i + 1] = "*"

\* C4 as stated: across the token list, line is non-decreasing and col is
\* non-decreasing.
C4_LineAndColNonDecreasing ==
    \A i \in 1..Len(tokens) - 1 :
        /\ tokens[i].line <= tokens[i + 1].line
        /\ tokens[i].col <= tokens[i + 1].col

\* C4, amended: across the token list, line is non-decreasing, and col is
\* non-decreasing between tokens of the same line (col starts again at 1
\* after a newline).
C4_PositionNonDecreasing ==
    \A i \in 1..Len(tokens) - 1 :
        /\ tokens[i].line <= tokens[i + 1].line
        /\ tokens[i].line = tokens[i + 1].line => tokens[i].col <= tokens[i + 1].col

\* a token on a later line with a smaller col than the token before it
C4_Witness ==
    /\ phase = "parse"
    /\ \E i \in 1..Len(tokens) - 1 :
          /\ tokens[i].line < tokens[i + 1].line
          /\ tokens[i].col > tokens[i + 1].col

\* the rendering of the whole number n by Value::toString
rendering(n) == toString(Number(Rat(n, 1)))

\* C5: `say "Hello"` calls print exactly once, with the text Hello, and
\* execute returns Text("Hello").
C5_SayHello ==
    (firstReturned /\ source = Src(<<"say", "\"Hello\"">>))
        => /\ output = << <<"H", "e", "l", "l", "o">> >>
           /\ result = Text(<<"H", "e", "l", "l", "o">>)

\* C6: after `declare x from 5` at top level, evaluating the bare identifier
\* x in the same runtime (later in the same text, or in the next text handed
\* to the same Runtime) returns Number(5.0).
C6_DeclareRoundTrip ==
    /\ (firstReturned /\ source = Src(<<"declare", "x", "from", "5", "give", "x">>))
          => result = Number(Rat(5, 1))
    /\ (/\ executed = <<Src(<<"declare", "x", "from", "5">>)>>
        /\ source = Src(<<"give", "x">>)
        /\ phase \in {"returned", "done"})
          => result = Number(Rat(5, 1))

\* C7: `form x from 3 plus 4` followed by `say x` prints the rendering of 7
\* and nothing else.
C7_FormBindsSum ==
    (firstReturned
     /\ source = Src(<<"form", "x", "from", "3", "plus", "4", "say", "x">>))
        => output = <<rendering(7)>>

\* C8: `if 1 over 0 do say "yes" end else do say "no" end` evaluates the
\* then-block only: it prints yes, once, and never no.
C8_IfTakesThen ==
    (firstReturned
     /\ source = Src(<<"if", "1", "over", "0", "do", "say", "\"yes\"", "end",
                       "else", "do", "say", "\"no\"", "end">>))
        => output = << <<"y", "e", "s">> >>

\* C9: `loop 3 do say step end` evaluates its body three times with step
\* 0, 1, 2: it prints the renderings of 0, 1 and 2 in that order.
C9_LoopCountsSteps ==
    (firstReturned /\ source = Src(<<"loop", "3", "do", "say", "step", "end">>))
        => output = <<rendering(0), rendering(1), rendering(2)>>

\* the operators of the division and modulo branches of BINARY_OP
DivModOps == {"div", "divide", "/", "mod", "%"}

\* the host's tree is a division or modulo whose right operand's toNumber
\* is 0.0, and it has been evaluated
dividedByZero ==
    /\ phase # "eval"
    /\ ast.type = "BINARY_OP"
    /\ Str(ast.value) \in DivModOps
    /\ trace # <<>>
    /\ toNumber(trace[Len(trace)].r).num = 0

\* C10: for every pair of operand values, a BINARY_OP with div or mod whose
\* right operand's toNumber is exactly 0.0 evaluates to Number(0.0) without
\* failing, and leaves bindings, functions and the scope stack as they were.
C10_DivModByZero ==
    dividedByZero =>
        /\ phase # "crashed"
        /\ result = Number(Rat(0, 1))
        /\ trace[Len(trace)].v = result
        /\ trace[Len(trace)].same
        /\ scopes = <<>>

\* a text operand divided by a variable bound to Number(0.0) has returned
C10_Witness ==
    /\ dividedByZero
    /\ phase = "returned"
    /\ trace[Len(trace)].l.t = "TEXT"
    /\ trace[Len(trace)].r = Number(Rat(0, 1))
    /\ ast.children[2].type = "IDENTIFIER"
    /\ Str(ast.value) = "div"

\* the evaluation handed to the host has returned
evaluated == phase \in {"returned", "done"}

\* the innermost frame of a scope stack
top(frames) == frames[Len(frames)]

\* the name looked up by the statement `give <name>` that ends the program
lastGiven == Str(ast.children[Len(ast.children)].children[1].value)

\* C11: a variable declared inside a Loop body is not visible after the
\* loop: every finished LOOP leaves globals and the scope stack as it found
\* them, so a lookup after the loop (of the declared name, or of step) gives
\* what it gave before the loop, Void when nothing outside binds the name.
C11_LoopScopeGone ==
    /\ \A i \in 1..Len(trace) :
          trace[i].type = "LOOP" =>
              /\ trace[i].vout = trace[i].vin
              /\ trace[i].sout = trace[i].sin
    /\ (evaluated /\ ast \in LoopDeclarePrograms) =>
          result = (IF lastGiven \in DOMAIN variables THEN variables[lastGiven]
                    ELSE Void)

\* a loop of two iterations declared x in its frame, and the lookup of x
\* after it gave Void
C11_Witness ==
    /\ evaluated
    /\ ast \in LoopDeclarePrograms
    /\ lastGiven = "x"
    /\ result = Void
    /\ \E i \in 1..Len(trace) :
          /\ trace[i].type = "FORM"
          /\ trace[i].sout # <<>>
          /\ "x" \in DOMAIN top(trace[i].sout)
          /\ top(trace[i].sout)["x"] = Number(Rat(1, 1))

\* C12: `put 5 to x` inside a Loop body, with x declared before the loop,
\* overwrites that binding of x: after the loop a lookup of x returns the
\* value assigned in the last iteration.
C12_AssignReachesOuter ==
    (evaluated /\ ast \in AssignInLoopPrograms) => result = Number(Rat(5, 1))

\* the log entry of the CALL statement on line ln
callAt(ln) ==
    CHOOSE e \in {trace[i] : i \in 1..Len(trace)} :
        e.type = "CALL" /\ e.token.line = ln

\* the second of two calls repeats the first
repeats(first, second) ==
    /\ second.v = first.v
    /\ second.printed = first.printed
    /\ second.fsame

TextNumbers ==
    [t \in {"", "a", "-0", "0", "3", "zero", "twelve", "not-a-number"} |->
        CASE t = "3" -> 3
          [] t = "twelve" -> 12
          [] OTHER -> 0]

\* the number the coercion rule gives for the value v
expectedNumber(v) ==
    CASE v.t = "NUM" -> [num |-> v.num, den |-> v.den]
      [] v.t = "BOOL" -> IF v.b THEN Rat(1, 1) ELSE Rat(0, 1)
      [] v.t = "TEXT" -> Rat(TextNumbers[Str(v.s)], 1)
      [] OTHER -> Rat(0, 1)

callNode == ast.children[2]

\* the callee name of callNode
callee == Str(callNode.children[1].value)

\* what the SAY arguments of callNode print, in order
argumentLines ==
    IF Len(callNode.children) = 4 THEN <<toString(Text(<<"1">>)), toString(Text(<<"2">>))>>
    ELSE <<>>

\* the module was invoked once on the method and the arguments, which were
\* evaluated left to right, and the function of the same name was not
moduleInvoked ==
    /\ result = moduleCallResult(callee, callNode.children[2].value, <<>>)
    /\ output = argumentLines
    /\ callAt(2).same

\* the registered function was invoked on the arguments: its body printed a
functionInvoked ==
    /\ output = argumentLines \o <<toString(Text(<<"a">>))>>
    /\ callAt(2).vout = callAt(2).vin
    /\ callAt(2).sout = callAt(2).sin

\* C15 as stated: a Call whose callee names a registered module goes to the
\* module, whatever its children, and a function of that name is not invoked.
C15_ModuleFirst ==
    (evaluated /\ ast \in ModuleCallPrograms /\ callee \in RegisteredModules) =>
        ~functionInvoked

\* C15, amended: a Call with a method child whose callee names a registered
\* module invokes the module once on the method and the arguments evaluated
\* left to right and returns its result, and a function of the same name is
\* not invoked; a Call with the callee alone, or whose callee names no
\* module, invokes the registered function of that name; and a Call that
\* matches neither yields Void and changes nothing.
C15_ModuleNeedsMethod ==
    (evaluated /\ ast \in ModuleCallPrograms) =>
        IF Len(callNode.children) > 1 /\ callee \in RegisteredModules
        THEN moduleInvoked
        ELSE IF callee \in callAt(2).fin
        THEN functionInvoked
        ELSE /\ result = Void
             /\ output = <<>>
             /\ callAt(2).same

\* `call play game <say 1> <say 2>` with a function play registered returned
\* the module's "Play: game" after printing 1 and 2, and not a
C15_Witness ==
    /\ evaluated
    /\ ast \in ModuleCallPrograms
    /\ callee = "play"
    /\ "play" \in callAt(2).fin
    /\ Len(callNode.children) = 4
    /\ result = Text(<<"P", "l", "a", "y", ":", " ", "g", "a", "m", "e">>)
    /\ Len(output) = 2

\* the node type of the production of a statement word
familyNode(w) ==
    CASE w \in FormWords -> "FORM"
      [] w \in ActWords -> "ACT"
      [] w \in IfWords -> "IF"
      [] w \in LoopWords -> "LOOP"
      [] w \in GiveDispatchWords -> "GIVE"
      [] w \in SayWords -> "SAY"
      [] w \in PutWords -> "PUT"

\* the text starts with the statement word w
startsWith(w) ==
    /\ phase \in {"parse", "hang", "eval"}
    /\ tokens[1].type \in {"KEYWORD", "IDENTIFIER"}
    /\ tokens[1].value = W[w]

\* the first token is a Keyword and parse() returns a program whose first
\* statement is the node of w's family
reachesProduction(w) ==
    startsWith(w) =>
        /\ tokens[1].type = "KEYWORD"
        /\ phase # "hang"
        /\ phase = "eval" =>
              /\ Len(ast.children) >= 1
              /\ ast.children[1].type = familyNode(w)
              /\ ast.children[1].token = tokens[1]

\* C16: a text whose first token is one of the listed declaration,
\* function-definition, conditional, loop, return, output or assignment
\* words is tokenized with that word as a Keyword and parsed at top level
\* into the node of that family.
C16_FamilyWordsParsed == \A w \in StatementWords : reachesProduction(w)

\* the frames of a scope stack below its top
below(frames) == SubSeq(frames, 1, Len(frames) - 1)

\* C17: every call of Runtime::evaluate returns with the scope stack as deep
\* as it found it and with the same frames below the top, and the scope
\* stack is empty whenever the evaluation of the whole tree has returned.
C17_ScopesLifo ==
    /\ \A i \in 1..Len(trace) :
          /\ trace[i].dout = trace[i].din
          /\ below(trace[i].sout) = below(trace[i].sin)
    /\ evaluated => scopes = <<>>

\* a block nested in a block declared x and y and returned two frames deep,
\* changing neither the frame below nor the depth, and the stack ended empty
C17_Witness ==
    /\ evaluated
    /\ scopes = <<>>
    /\ \E i \in 1..Len(trace) :
          /\ trace[i].type = "BLOCK"
          /\ trace[i].din = 1
          /\ trace[i].sin # <<EmptyMap>>
          /\ trace[i].sout = trace[i].sin
    /\ \E i \in 1..Len(trace) :
          /\ trace[i].type = "FORM"
          /\ trace[i].din = 2
          /\ trace[i].sout # trace[i].sin

\* the log entry of the GIVE statement on line ln
giveAt(ln) ==
    CHOOSE e \in {trace[i] : i \in 1..Len(trace)} :
        e.type = "GIVE" /\ e.token.line = ln

\* the declaration logged as e bound its name in the innermost frame, or in
\* the global table when no frame was active, and nowhere else
boundInCurrentScope(e) ==
    IF e.sin # <<>>
    THEN /\ e.vout = e.vin
         /\ below(e.sout) = below(e.sin)
         /\ top(e.sout) = Put(top(e.sin), Str(e.children[2].value), e.v)
    ELSE /\ e.sout = <<>>
         /\ e.vout = Put(e.vin, Str(e.children[2].value), e.v)

\* C18: a Declaration writes the innermost active frame and leaves globals
\* and outer frames unchanged, or writes the global table when no frame is
\* active; a lookup after a block that shadowed a name returns the outer
\* binding again.
C18_DeclareInCurrentScope ==
    /\ \A i \in 1..Len(trace) :
          (trace[i].type = "FORM" /\ Len(trace[i].children) >= 2) =>
              boundInCurrentScope(trace[i])
    /\ (evaluated /\ ast \in ShadowPrograms /\ ast.children[1].type = "FORM") =>
          /\ giveAt(4).v = Number(Rat(2, 1))
          /\ giveAt(5).v = Number(Rat(1, 1))
          /\ variables["x"] = Number(Rat(1, 1))
    /\ (evaluated /\ ast \in ShadowPrograms /\ ast.children[1].type = "BLOCK") =>
          /\ giveAt(4).v = Number(Rat(2, 1))
          /\ giveAt(5).v = getVariable(rtOf, "x")
          /\ variables = trace[1].vin

\* x declared 1 globally and 2 in a block: the declaration in the block
\* left the global x = 1, the block read 2 and the statement after it read 1
C18_Witness ==
    /\ evaluated
    /\ ast \in ShadowPrograms
    /\ ast.children[1].type = "FORM"
    /\ giveAt(4).v = Number(Rat(2, 1))
    /\ result = Number(Rat(1, 1))
    /\ \E i \in 1..Len(trace) :
          /\ trace[i].type = "FORM"
          /\ trace[i].din = 1
          /\ trace[i].v = Number(Rat(2, 1))
          /\ trace[i].vout["x"] = Number(Rat(1, 1))
          /\ top(trace[i].sout)["x"] = Number(Rat(2, 1))

\* C19: the free variable y of f's body is resolved when f is called,
\* through the scopes live at the call: called inside a block that declared
\* y = 2, f returns 2; called at top level, where the global y is 1, f
\* returns 1, whether y = 1 was declared before f was defined or after.
C19_LateBound ==
    (evaluated /\ ast \in LateBoundPrograms) =>
        /\ callAt(5).v = Number(Rat(2, 1))
        /\ callAt(6).v = Number(Rat(1, 1))
        /\ result = Number(Rat(1, 1))

\* f was defined inside the block where y was 2, and the global y = 1 was
\* declared only after that: the call at top level returned 1
C19_Witness ==
    /\ evaluated
    /\ ast \in LateBoundPrograms
    /\ ast.children[1].type = "BLOCK"
    /\ callAt(5).v = Number(Rat(2, 1))
    /\ callAt(5).din = 1
    /\ callAt(6).v = Number(Rat(1, 1))
    /\ callAt(6).din = 0

\* the ACT and CALL statements of a program of ParameterPrograms
actNode == ast.children[1]

\* the position of the parameter name p among f's parameters, 0 if none
parameterIndex(p) ==
    IF \E i \in 2..(Len(actNode.children) - 1) : actNode.children[i].value = p
    THEN (CHOOSE i \in 2..(Len(actNode.children) - 1) : actNode.children[i].value = p) - 1
    ELSE 0

\* the name f's body looks up
returnedName == actNode.children[Len(actNode.children)].children[1].value

\* the value of the i-th argument of the CALL
argumentValue(i) ==
    CASE i = 1 -> Number(Rat(7, 1))
      [] i = 2 -> Text(<<"a">>)
      [] i = 3 -> Number(Rat(5, 2))

\* C20: inside the body of f a lookup of the i-th parameter returns the i-th
\* argument of the call when there is one, and Void when the call has fewer
\* than i arguments, whatever the caller's scopes or the globals bind.
C20_MissingParameterVoid ==
    (evaluated /\ ast \in ParameterPrograms /\ parameterIndex(returnedName) > 0) =>
        result = IF parameterIndex(returnedName) <= Len(ast.children[2].children) - 1
                 THEN argumentValue(parameterIndex(returnedName))
                 ELSE Void

\* the count of the loop of a program of LoopCountPrograms
loopCount == toNumber(Text(ast.children[1].children[1].value))

\* floor(c) for c >= 1, and 0 below
floorCount(c) == IF RLess(c, Rat(1, 1)) THEN 0 ELSE c.num \div c.den

\* C21: a Loop with the numeric count c evaluates its body floor(c) times,
\* and not at all when c < 1.
C21_LoopFloor ==
    (evaluated /\ ast \in LoopCountPrograms) => Len(output) = floorCount(loopCount)

\* C22: every return of Runtime::evaluate from a Loop, a Block, a Program or
\* a Call carries a Value: Void when the loop made no iteration, when the
\* block or program has no statement, or when the called body is empty.
C22_NeverAbsent ==
    evaluated =>
        \A i \in 1..Len(trace) :
            trace[i].type \in {"LOOP", "BLOCK", "PROGRAM", "CALL"} =>
                trace[i].v # NullValue

\* the texts that print Hello with the repeat count 3, before and after
RepeatTexts == {Src(<<"say", "\"Hello\"", "3">>), Src(<<"3", "say", "\"Hello\"">>)}

\* C23: an Output without repeat count calls print once, and an Output with
\* the repeat count 3, written before the keyword or after the expression,
\* calls print exactly 3 times; the result is the printed value.
C23_PrintRepeats ==
    /\ (firstReturned /\ source = Src(<<"say", "\"Hello\"">>)) =>
          /\ Len(output) = 1
          /\ toString(result) = output[1]
    /\ (firstReturned /\ source \in RepeatTexts) =>
          /\ Len(output) = 3
          /\ \A i \in 1..3 : toString(result) = output[i]

\* l same r as stated: both Text and equal strings, or not both Text and
\* numbers less than 0.0001 apart
sameAsStated(l, r) ==
    IF l.t = "TEXT" /\ r.t = "TEXT" THEN l.s = r.s
    ELSE RLess(RAbs(RSub(toNumber(l), toNumber(r))), Rat(1, 10000))

\* C24: `l same r` is true iff both are Text with equal strings or they are
\* not both Text and their numbers are less than 0.0001 apart, and `l not r`
\* is the negation of `l same r`.
C24_SameAndNot ==
    \A i \in 1..Len(trace) :
        trace[i].type = "BINARY_OP" =>
            /\ Str(trace[i].value) = "same" =>
                  trace[i].v = Bool(sameAsStated(trace[i].l, trace[i].r))
            /\ Str(trace[i].value) = "not" =>
                  trace[i].v = Bool(~sameAsStated(trace[i].l, trace[i].r))

\* the precedence levels as stated
statedLevel(op) ==
    CASE op = "or" -> 1
      [] op = "and" -> 2
      [] op \in {"same", "not"} -> 3
      [] op \in {"over", "under"} -> 4
      [] op \in {"plus", "minus"} -> 5
      [] op \in {"times", "div"} -> 6

TableOps == {"or", "and", "same", "not", "over", "under", "plus", "minus", "times", "div"}

\* n is the operand spelled w
operand(n, w) == n.type \in {"LITERAL", "IDENTIFIER"} /\ n.children = <<>> /\ n.token.value = W[w]

\* n is a BinaryOp of op with two children
binaryOf(n, op) == n.type = "BINARY_OP" /\ n.value = W[op] /\ Len(n.children) = 2

\* n is x op1 (1 op2 y)
groupsRight(n, op1, op2) ==
    /\ binaryOf(n, op1)
    /\ operand(n.children[1], "x")
    /\ binaryOf(n.children[2], op2)
    /\ operand(n.children[2].children[1], "1")
    /\ operand(n.children[2].children[2], "y")

\* n is (x op1 1) op2 y
groupsLeft(n, op1, op2) ==
    /\ binaryOf(n, op2)
    /\ binaryOf(n.children[1], op1)
    /\ operand(n.children[1].children[1], "x")
    /\ operand(n.children[1].children[2], "1")
    /\ operand(n.children[2], "y")

\* the operators of the BinaryOp nodes of the tree n
RECURSIVE operatorsOf(_)
operatorsOf(n) ==
    (IF n.type = "BINARY_OP" THEN {n.value} ELSE {})
        \cup UNION {operatorsOf(n.children[i]) : i \in 1..Len(n.children)}

\* C25: in `give x op1 1 op2 y` the operator of the higher level binds its
\* operands first and operators of one level group left to right; and no
\* tree the parser builds has a BinaryOp whose operator is outside the table.
C25_PrecedenceClimbing ==
    /\ \A op1 \in TableOps, op2 \in TableOps :
          (phase = "eval" /\ source = Src(<<"give", "x", op1, "1", op2, "y">>)) =>
              /\ Len(ast.children) = 1
              /\ ast.children[1].type = "GIVE"
              /\ IF statedLevel(op2) > statedLevel(op1)
                 THEN groupsRight(ast.children[1].children[1], op1, op2)
                 ELSE groupsLeft(ast.children[1].children[1], op1, op2)
    /\ operatorsOf(ast) \subseteq {W[op] : op \in TableOps}

\* `give x plus 1 times y` was parsed as x plus (1 times y)
C25_Witness ==
    /\ phase = "eval"
    /\ source = Src(<<"give", "x", "plus", "1", "times", "y">>)
    /\ groupsRight(ast.children[1].children[1], "plus", "times")

\* a block comment opens at index k of the text, after plain characters
\* only, and no */ follows it
unterminatedAt(k) ==
    /\ k < Len(source)
    /\ source[k] = "/" /\ source[k + 1] = "*"
    /\ \A j \in 1..(k - 1) : source[j] \in {"a", "1", "."}
    /\ \A j \in (k + 2)..(Len(source) - 1) : ~(source[j] = "*" /\ source[j + 1] = "/")

\* C26: when a block comment opens and is never closed, the tokenizer emits
\* no token for any character after the /*: every token before the
\* EOF_TOKEN ends before the comment (a token carries the column after its
\* last character).
C26_CommentToEnd ==
    \A k \in 1..Len(source) :
        (phase = "parse" /\ unterminatedAt(k)) =>
            \A i \in 1..(Len(tokens) - 1) : tokens[i].col <= k

\* C27: toNumber of the Text "four_zero_zero_zero" is 4000 and toNumber of
\* the Text "four_g" is 4 x 1024 x 1024 x 1024: divided by 1024 three times
\* it gives 4.
C27_FourG ==
    (evaluated /\ ast \in NumberWordTrees) =>
        IF Len(ast.children[1].value) = 6
        THEN RDiv(RDiv(RDiv(toNumber(result), Rat(1024, 1)), Rat(1024, 1)), Rat(1024, 1))
                 = Rat(4, 1)
        ELSE toNumber(result) = Rat(4000, 1)

\* the nodes of the tree n
RECURSIVE nodesOf(_)
nodesOf(n) == {n} \cup UNION {nodesOf(n.children[i]) : i \in 1..Len(n.children)}

\* the node an entry of the log was written for
nodeOf(e) == [type |-> e.type, value |-> e.value, children |-> e.children, token |-> e.token]

entriesAt(ln) == {i \in 1..Len(trace) : trace[i].token.line = ln /\ trace[i].type \in {"GIVE", "SAY"}}

\* C29: a Return yields its expression's value and ends nothing: the
\* statement after it is evaluated, as often as the Return itself and each
\* time after it, and the result of the block, of the function call and of
\* the program is the value of the last statement.
C29_GiveDoesNotExit ==
    (evaluated /\ ast \in GiveThenPrograms) =>
        /\ entriesAt(3) # {}
        /\ Cardinality(entriesAt(4)) = Cardinality(entriesAt(3))
        /\ \A i \in entriesAt(3) : \E j \in entriesAt(4) : j > i
        /\ Len(output) = Cardinality(entriesAt(3))
        /\ \A j \in entriesAt(4) : trace[j].v = Text(<<"a">>)
        /\ result = IF ast.children[1].type = "ACT" THEN Number(Rat(2, 1)) ELSE Text(<<"a">>)

\* f's body gave 1, then printed a, and the call returned the 2 of the last
\* statement
C29_Witness ==
    /\ evaluated
    /\ ast \in GiveThenPrograms
    /\ ast.children[1].type = "ACT"
    /\ giveAt(3).v = Number(Rat(1, 1))
    /\ output = <<toString(Text(<<"a">>))>>
    /\ callAt(5).v = Number(Rat(2, 1))

\* every value bound in the table m is a Value object
allPresent(m) == \A name \in DOMAIN m : m[name] # NullValue

\* every value bound in the frames is a Value object
framesPresent(frames) == \A k \in 1..Len(frames) : allPresent(frames[k])

\* C30: on the trees of the parser no absent value is stored or used: every
\* entry of the global table and of every scope frame, before and after
\* every evaluation, is a Value object; every Identifier, Literal and
\* BinaryOp evaluates to one, and so do both operands of a BinaryOp; and
\* every Declaration, Assign and Output, which store, print or return the
\* value of an expression, yields one.
C30_NoAbsentValueUsed ==
    /\ allPresent(variables)
    /\ framesPresent(scopes)
    /\ \A i \in 1..Len(trace) :
          /\ allPresent(trace[i].vin) /\ allPresent(trace[i].vout)
          /\ framesPresent(trace[i].sin) /\ framesPresent(trace[i].sout)
          /\ trace[i].type \in {"IDENTIFIER", "LITERAL", "BINARY_OP", "FORM", "PUT", "SAY"} =>
                trace[i].v # NullValue
          /\ trace[i].type = "BINARY_OP" =>
                trace[i].l # NullValue /\ trace[i].r # NullValue

\* `form x from 3 plus 4 say x` has run: the Declaration stored a Value
\* object in the global table, and the Output evaluated an Identifier and
\* printed its value
C30_Witness ==
    /\ phase = "returned"
    /\ source = Src(<<"form", "x", "from", "3", "plus", "4", "say", "x">>)
    /\ DOMAIN variables # {}
    /\ \A name \in DOMAIN variables : variables[name] = Void
    /\ \E i \in 1..Len(trace) : trace[i].type = "FORM" /\ trace[i].vout # trace[i].vin
    /\ \E i \in 1..Len(trace) : trace[i].type = "IDENTIFIER" /\ trace[i].v = Void
    /\ \E i \in 1..Len(trace) : trace[i].type = "SAY" /\ trace[i].v = Void
    /\ output = << <<"v", "o", "i", "d">> >>

====
